---- MODULE Spec2Model ----
(***************************************************************************)
(* Bhulekha RoR HTML extraction engine (src/html_parser.py).               *)
(*                                                                         *)
(* A document is the part of the BeautifulSoup tree the parser looks at:   *)
(* its <strong> markers, its identified <span> elements, its label cells   *)
(* and its two plot tables.  The parser's stages are the actions.          *)
(*                                                                         *)
(* Odia text is written in ASCII transliteration, e.g. "jilla" for the     *)
(* Odia word for district.  A cell text is a sequence of tokens (":", "/", *)
(* " ", a line break, "<", or a word) wherever the code splits or strips   *)
(* it, and a string otherwise.                                             *)
(*                                                                         *)
(* Areas are exact decimals counted in units of 10^-8 hectare; the binary  *)
(* rounding of Python floats is not modelled.                              *)
(***************************************************************************)
EXTENDS Integers, Sequences, FiniteSets, TLC

\* The parser (src/html_parser.py).
VARIABLES pc, doc, location_data, plot_data, special_comments,
          extracted_data, odia_data, confidence, result, prev, runs

\* The /explain handler (src/api_server.py): its position, the module's
\* supabase_client (TRUE when configured), the handler's locals
\* khatiyan_data_en, record_id (0 for None) and cached_extraction, the
\* calls it has made to services, and the response it ends in.
VARIABLES explain_pc, supabase_client, khatiyan_data_en, record_id,
          cached_extraction, calls, response

\* get_or_create_khatiyan_record (src/api_server.py): the rows of the table
\* khatiyan_records, and for every call its process, its position, its
\* key, and what it returned (0 for None).
VARIABLES khatiyan_records, process, record_pc, record_key, returned

\* PromptService (src/prompt_service.py): the object's configuration and
\* cache, the clock time.time(), and the call of get_prompt under way: its
\* position, its arguments together with the time and cache it started
\* from (get_call), the loop index of _fetch_from_api, what the call has
\* done so far (io: the fetch, its HTTP requests and sleeps, the file
\* read), its result, and the number of calls made.
VARIABLES cache_ttl_seconds, max_retries, cache, now, get_pc, get_call,
          attempt, io, get_result, get_calls

\* load_ror_prompt_if_needed (src/api_server.py): the module's globals
\* ROR_SUMMARY_PROMPT (<<>> for None, else <<text>>) and
\* ROR_SUMMARY_PROMPT_LOADED, its prompt_service (TRUE when configured),
\* the docstring of SummarizeRoR, the docstring the agent's ror_summarizer
\* was created from, the position of every /summarize request in the
\* loader, and the numbers of prompt fetches and of re-creations of the
\* summarizer so far.
VARIABLES ROR_SUMMARY_PROMPT, ROR_SUMMARY_PROMPT_LOADED, prompt_service,
          SummarizeRoR, ror_summarizer, load_pc, fetches, recreations

parser_vars == <<pc, doc, location_data, plot_data, special_comments,
                 extracted_data, odia_data, confidence, result, prev, runs>>

explain_vars == <<explain_pc, supabase_client, khatiyan_data_en, record_id,
                  cached_extraction, calls, response>>

records_vars == <<khatiyan_records, process, record_pc, record_key, returned>>

prompt_vars == <<cache_ttl_seconds, max_retries, cache, now, get_pc, get_call,
                 attempt, io, get_result, get_calls>>

loader_vars == <<ROR_SUMMARY_PROMPT, ROR_SUMMARY_PROMPT_LOADED, prompt_service,
                 SummarizeRoR, ror_summarizer, load_pc, fetches, recreations>>

\* What the parser's own steps leave alone.
server_vars == <<explain_vars, records_vars, prompt_vars, loader_vars>>

vars == <<parser_vars, server_vars>>

NoResponse == [status |-> 0, detail |-> ""]

\* No request is being handled.
ExplainIdle ==
    /\ explain_pc = "idle"
    /\ supabase_client = FALSE
    /\ khatiyan_data_en = "unset"
    /\ record_id = 0
    /\ cached_extraction = FALSE
    /\ calls = <<>>
    /\ response = NoResponse

\* No call of get_or_create_khatiyan_record is under way.
RecordsIdle ==
    /\ khatiyan_records = <<>>
    /\ process = <<>>
    /\ record_pc = <<>>
    /\ record_key = <<>>
    /\ returned = <<>>

\* No PromptService is in use.
PromptIdle ==
    /\ cache_ttl_seconds = 0
    /\ max_retries = 0
    /\ cache = <<>>
    /\ now = 0
    /\ get_pc = "idle"
    /\ get_call = <<>>
    /\ attempt = 0
    /\ io = <<>>
    /\ get_result = <<>>
    /\ get_calls = 0

\* Lines 129-130, 281 and 317: the module as imported, no /summarize
\* request yet.
LoaderIdle ==
    /\ ROR_SUMMARY_PROMPT = <<>>
    /\ ROR_SUMMARY_PROMPT_LOADED = FALSE
    /\ prompt_service = FALSE
    /\ SummarizeRoR = "placeholder"
    /\ ror_summarizer = "placeholder"
    /\ load_pc = <<>>
    /\ fetches = 0
    /\ recreations = 0

ServerIdle ==
    /\ ExplainIdle
    /\ RecordsIdle
    /\ PromptIdle
    /\ LoaderIdle

----------------------------------------------------------------------------
(* Python values held in the parser's dictionaries.  Every dictionary      *)
(* value is wrapped so that a string, a list and None can be compared.     *)

Str(x) == [k |-> "str", s |-> x, l |-> <<>>]
List(x) == [k |-> "list", s |-> "", l |-> x]
NoneV == [k |-> "none", s |-> "", l |-> <<>>]

\* Python truthiness: None, "" and [] are falsy.
Truthy(v) ==
    CASE v.k = "str" -> v.s # ""
      [] v.k = "list" -> v.l # <<>>
      [] OTHER -> FALSE

\* a or b
Or(a, b) == IF Truthy(a) THEN a ELSE b

\* dict.get(key) with the default None
Get(d, key) == IF key \in DOMAIN d THEN d[key] ELSE NoneV

\* dict.get(key, "")
GetOrEmpty(d, key) == IF key \in DOMAIN d THEN d[key] ELSE Str("")

EmptyDict == [key \in {} |-> NoneV]

RECURSIVE SeqToSet(_)
SeqToSet(q) == IF q = <<>> THEN {} ELSE {Head(q)} \cup SeqToSet(Tail(q))

----------------------------------------------------------------------------
(* Key/value remapper.                                                     *)

ENGLISH_TO_ODIA_FIELD_NAMES ==
    [district |-> "jilla",
     tehsil |-> "tahasil",
     village |-> "grama",
     khatiyan_number |-> "khatiyan_nambar",
     owner_name |-> "malika_nama",
     father_name |-> "pita_nama",
     caste |-> "jati",
     other_owners |-> "anya_malika",
     total_plots |-> "mota_plot",
     plot_numbers |-> "plot_nambar",
     total_area |-> "mota_kshetraphala",
     land_type |-> "jami_prakara",
     plot_notes |-> "plot_tippani",
     plots |-> "plot_bibarani",
     special_comments |-> "bishesha_mantabya"]

plot_key_mapping ==
    [plot_number |-> "plot_nambar",
     area |-> "kshetraphala",
     land_type |-> "jami_prakara",
     notes |-> "tippani"]

\* plot_key_mapping.get(eng_key, eng_key)
OdiaPlotKey(eng_key) ==
    IF eng_key \in DOMAIN plot_key_mapping THEN plot_key_mapping[eng_key] ELSE eng_key

ConvertPlotDropUnmapped(plot) ==
    LET mapped == DOMAIN plot \cap DOMAIN plot_key_mapping
    IN [ok \in {plot_key_mapping[e] : e \in mapped} |->
          plot[CHOOSE e \in mapped : plot_key_mapping[e] = ok]]

ConvertPlot(plot) ==
    LET keys == {OdiaPlotKey(e) : e \in DOMAIN plot}
    IN [ok \in keys |-> plot[CHOOSE e \in DOMAIN plot : OdiaPlotKey(e) = ok]]

ConvertPlotsToOdia(plots) == [i \in 1..Len(plots) |-> ConvertPlot(plots[i])]

OdiaValueNoNativePreference(english_data, eng_key) ==
    IF eng_key = "plots" THEN List(ConvertPlotsToOdia(english_data[eng_key].l))
    ELSE english_data[eng_key]

\* The value stored under eng_key's Odia key.
OdiaValue(english_data, eng_key) ==
    CASE eng_key = "district" ->
           Or(Get(english_data, "native_district"), english_data[eng_key])
      [] eng_key = "tehsil" ->
           Or(Get(english_data, "native_tehsil"), english_data[eng_key])
      [] eng_key = "village" ->
           Or(Get(english_data, "native_village"), english_data[eng_key])
      [] eng_key = "plots" ->
           List(ConvertPlotsToOdia(english_data[eng_key].l))
      [] OTHER -> english_data[eng_key]

CreateOdiaJson(english_data) ==
    LET mapped == DOMAIN english_data \cap DOMAIN ENGLISH_TO_ODIA_FIELD_NAMES
        odia_keys == {ENGLISH_TO_ODIA_FIELD_NAMES[e] : e \in mapped}
    IN [ok \in odia_keys |->
          OdiaValue(english_data,
                    CHOOSE e \in mapped : ENGLISH_TO_ODIA_FIELD_NAMES[e] = ok)]

RemapCallRenamesInPlace(english_data) ==
    [odia_data |-> CreateOdiaJson(english_data),
     english_data |->
       [english_data EXCEPT !["plots"] = List(ConvertPlotsToOdia(@.l))]]

\* A call of _create_odia_json: the dictionary it returns and the argument
\* as the call leaves it.  The method writes to the new dictionaries
\* odia_data and odia_plot only.
RemapCall(english_data) ==
    [odia_data |-> CreateOdiaJson(english_data),
     english_data |-> english_data]

----------------------------------------------------------------------------
(* Confidence classifier.                                                  *)

required_fields ==
    <<"district", "tehsil", "village", "khatiyan_number",
      "owner_name", "father_name", "caste",
      "total_plots", "plot_numbers", "total_area">>

\* value and value not in ["Not found", "Extraction failed", ""]
FieldPresent(value) ==
    /\ Truthy(value)
    /\ ~(value.k = "str" /\ value.s \in {"Not found", "Extraction failed", ""})

PresentCount(data) ==
    Cardinality({i \in 1..Len(required_fields) :
                   FieldPresent(GetOrEmpty(data, required_fields[i]))})

\* completeness >= 0.95, >= 0.70 with completeness = present/len, in hundredths
HighPercent == 95
MediumPercent == 70

LevelOfStrictMedium(present_count, n) ==
    IF present_count * 100 >= HighPercent * n THEN "high"
    ELSE IF present_count * 100 > MediumPercent * n THEN "medium"
    ELSE "low"

LevelOfBranchesSwapped(present_count, n) ==
    IF present_count * 100 >= HighPercent * n THEN "high"
    ELSE IF present_count * 100 >= MediumPercent * n THEN "low"
    ELSE "medium"

LevelOf(present_count, n) ==
    IF present_count * 100 >= HighPercent * n THEN "high"
    ELSE IF present_count * 100 >= MediumPercent * n THEN "medium"
    ELSE "low"

CalculateConfidence(data) == LevelOf(PresentCount(data), Len(required_fields))

----------------------------------------------------------------------------
(* Text helpers.  A token sequence is a text cut at the characters the     *)
(* code looks for.                                                         *)

IsWs(tok) == tok \in {" ", "\n"}

RECURSIVE Text(_)
Text(t) == IF t = <<>> THEN "" ELSE Head(t) \o Text(Tail(t))

\* str.lstrip(':')
RECURSIVE LStripColon(_)
LStripColon(t) ==
    IF t # <<>> /\ Head(t) = ":" THEN LStripColon(Tail(t)) ELSE t

RECURSIVE LStripWs(_)
LStripWs(t) == IF t # <<>> /\ IsWs(Head(t)) THEN LStripWs(Tail(t)) ELSE t

RECURSIVE RStripWs(_)
RStripWs(t) ==
    IF t # <<>> /\ IsWs(t[Len(t)]) THEN RStripWs(SubSeq(t, 1, Len(t) - 1)) ELSE t

\* str.strip()
StripWs(t) == RStripWs(LStripWs(t))

\* str.split(sep): the segments between the separator tokens, at least one.
RECURSIVE SplitOn(_, _)
SplitOn(t, sep) ==
    IF \E i \in 1..Len(t) : t[i] = sep
    THEN LET i == CHOOSE j \in 1..Len(t) :
                    t[j] = sep /\ \A m \in 1..(j - 1) : t[m] # sep
         IN <<SubSeq(t, 1, i - 1)>> \o SplitOn(SubSeq(t, i + 1, Len(t)), sep)
    ELSE <<t>>

\* x in text, for a one-token x
Contains(t, tok) == \E i \in 1..Len(t) : t[i] = tok

----------------------------------------------------------------------------
(* Field locators.  A strong marker has the set of searched labels its     *)
(* text holds, whether it lies in a cell (td) that has a following sibling *)
(* cell (sib), that cell's text (value) and its parent's text (ptext).  A  *)
(* label cell (doc.tds) has the labels its text holds, the text of a span  *)
(* of class "line" inside it and of one inside its next sibling cell.      *)

NonePair == <<NoneV, NoneV>>

BilingualSplitLastSegment(value) ==
    LET value_text == StripWs(LStripColon(value))
        segs == SplitOn(value_text, "/")
        parts == [i \in 1..Len(segs) |-> Text(StripWs(segs[i]))]
    IN IF Len(parts) >= 2 THEN <<Str(parts[1]), Str(parts[Len(parts)])>>
       ELSE <<NoneV, Str(parts[1])>>

\* Lines 352-369: strip the leading colon, split on "/", first two segments.
BilingualSplit(value) ==
    LET value_text == StripWs(LStripColon(value))
        segs == SplitOn(value_text, "/")
        parts == [i \in 1..Len(segs) |-> Text(StripWs(segs[i]))]
    IN IF Len(parts) >= 2 THEN <<Str(parts[1]), Str(parts[2])>>
       ELSE <<NoneV, Str(parts[1])>>

\* The strong markers that name the field and have a parent cell followed by
\* a sibling cell.
UsableStrongs(d, label_odia, label_english) ==
    {i \in 1..Len(d.strongs) :
        /\ (label_odia \in d.strongs[i].labels \/ label_english \in d.strongs[i].labels)
        /\ d.strongs[i].td
        /\ d.strongs[i].sib}

\* _extract_bilingual_field: (native_value, english_value)
ExtractBilingualField(d, label_odia, label_english) ==
    LET usable == UsableStrongs(d, label_odia, label_english)
    IN IF usable = {} THEN NonePair
       ELSE LET i == CHOOSE j \in usable : \A m \in usable : j <= m
            IN BilingualSplit(d.strongs[i].value)

\* re.compile(pattern) matched against the ids the documents use.
IdMatches(pattern, id) ==
    CASE pattern = "lblKhatiyan.*No" -> id \in {"gvfront_ctl02_lblKhatiyanslNo"}
      [] pattern = ".*lblName.*" -> id \in {"gvfront_ctl02_lblName"}
      [] pattern = ".*lblSpecialCase.*" -> id \in {"gvfront_ctl02_lblSpecialCase"}
      [] pattern = ".*lblLastPublishDate.*" -> id \in {"gvfront_ctl02_lblLastPublishDate"}
      [] pattern = ".*lblTaxDate.*" -> id \in {"gvfront_ctl02_lblTaxDate"}
      [] OTHER -> FALSE

\* The least of a set of positions, 0 for none.
First(hits) == IF hits = {} THEN 0 ELSE CHOOSE j \in hits : \A m \in hits : j <= m

\* soup.find('span', id=span_id): the first such span in document order.
FindSpanById(d, span_id) == First({i \in 1..Len(d.spans) : d.spans[i].id = span_id})

\* soup.find('span', id=re.compile(pattern))
FindSpanByPattern(d, pattern) ==
    First({i \in 1..Len(d.spans) : IdMatches(pattern, d.spans[i].id)})

\* The label scan of lines 244-254: the first cell that holds the label and a
\* span of class "line".
LabelScan(d, label_odia) ==
    LET hits == {i \in 1..Len(d.tds) :
                   label_odia \in d.tds[i].labels /\ d.tds[i].line # NoneV}
    IN IF hits = {} THEN NonePair
       ELSE LET i == CHOOSE j \in hits : \A m \in hits : j <= m
            IN <<d.tds[i].line, d.tds[i].line>>

ExtractSrorfrontFieldDocumentOrder(d, label_odia, span_ids) ==
    LET found == {i \in 1..Len(d.spans) :
                    \E n \in 1..Len(span_ids) : d.spans[i].id = span_ids[n]}
    IN IF found # {}
       THEN LET v == Str(Text(d.spans[First(found)].text))
            IN <<v, v>>
       ELSE LabelScan(d, label_odia)

\* _extract_srorfront_field: (english_value, native_value), both the same.
ExtractSrorfrontField(d, label_odia, span_ids) ==
    LET found == {n \in 1..Len(span_ids) : FindSpanById(d, span_ids[n]) # 0}
    IN IF found # {}
       THEN LET n == CHOOSE j \in found : \A m \in found : j <= m
                v == Str(Text(d.spans[FindSpanById(d, span_ids[n])].text))
            IN <<v, v>>
       ELSE LabelScan(d, label_odia)

\* _extract_srorfront_khatiyan
ExtractSrorfrontKhatiyan(d) ==
    LET s == FindSpanByPattern(d, "lblKhatiyan.*No")
        hits == {i \in 1..Len(d.tds) :
                   /\ "khatiyanara kramika nambara" \in d.tds[i].labels
                   /\ d.tds[i].next_line # NoneV}
    IN IF s # 0 THEN Str(Text(d.spans[s].text))
       ELSE IF hits = {} THEN NoneV
       ELSE d.tds[CHOOSE j \in hits : \A m \in hits : j <= m].next_line

ExtractLocationInfoPerField(d) ==
    LET a1 == ExtractBilingualField(d, "jilla", "District")
        a2 == ExtractBilingualField(d, "tahasil", "Tahasil")
        a3 == ExtractBilingualField(d, "mauja", "Mouza")
        a4 == ExtractBilingualField(d, "khatiyanara kramika nambara", "Khata No")
        fallback == ~Truthy(a1[2])
        b1 == ExtractSrorfrontField(d, "jilla", <<"gvfront_ctl02_lblDist">>)
        b2 == ExtractSrorfrontField(d, "tahasil",
                  <<"gvfront_ctl02_lblTehsil", "gvfront_ctl02_lblTahasil">>)
        b3 == ExtractSrorfrontField(d, "mauja", <<"gvfront_ctl02_lblMouja">>)
        district == IF fallback THEN b1[1] ELSE a1[2]
        native_district == IF fallback THEN b1[2] ELSE a1[1]
        tehsil == IF ~Truthy(a2[2]) THEN b2[1] ELSE a2[2]
        native_tehsil == IF ~Truthy(a2[2]) THEN b2[2] ELSE a2[1]
        village == IF ~Truthy(a3[2]) THEN b3[1] ELSE a3[2]
        native_village == IF ~Truthy(a3[2]) THEN b3[2] ELSE a3[1]
        khatiyan_number == IF ~Truthy(a4[2]) THEN ExtractSrorfrontKhatiyan(d) ELSE a4[2]
    IN [district |-> Or(district, Str("Not found")),
        native_district |-> native_district,
        tehsil |-> Or(tehsil, Str("Not found")),
        native_tehsil |-> native_tehsil,
        village |-> Or(village, Str("Not found")),
        native_village |-> native_village,
        khatiyan_number |-> Or(khatiyan_number, Str("Not found"))]

\* _extract_location_info
ExtractLocationInfo(d) ==
    LET a1 == ExtractBilingualField(d, "jilla", "District")
        a2 == ExtractBilingualField(d, "tahasil", "Tahasil")
        a3 == ExtractBilingualField(d, "mauja", "Mouza")
        a4 == ExtractBilingualField(d, "khatiyanara kramika nambara", "Khata No")
        fallback == ~Truthy(a1[2])
        b1 == ExtractSrorfrontField(d, "jilla", <<"gvfront_ctl02_lblDist">>)
        b2 == ExtractSrorfrontField(d, "tahasil",
                  <<"gvfront_ctl02_lblTehsil", "gvfront_ctl02_lblTahasil">>)
        b3 == ExtractSrorfrontField(d, "mauja", <<"gvfront_ctl02_lblMouja">>)
        district == IF fallback THEN b1[1] ELSE a1[2]
        native_district == IF fallback THEN b1[2] ELSE a1[1]
        tehsil == IF fallback THEN b2[1] ELSE a2[2]
        native_tehsil == IF fallback THEN b2[2] ELSE a2[1]
        village == IF fallback THEN b3[1] ELSE a3[2]
        native_village == IF fallback THEN b3[2] ELSE a3[1]
        khatiyan_number == IF fallback THEN ExtractSrorfrontKhatiyan(d) ELSE a4[2]
    IN [district |-> Or(district, Str("Not found")),
        native_district |-> native_district,
        tehsil |-> Or(tehsil, Str("Not found")),
        native_tehsil |-> native_tehsil,
        village |-> Or(village, Str("Not found")),
        native_village |-> native_village,
        khatiyan_number |-> Or(khatiyan_number, Str("Not found"))]

----------------------------------------------------------------------------
(* Numbers.  An area is an integer count of 10^-8 hectare.                 *)

Unit == 100000000

\* float(text) on the numerals the documents use; any other text, the empty
\* one included, raises ValueError.
Numerals ==
    [n \in {"0", "0.0065", "0.0105", "0.5", "2", "5", "-0.5"} |->
       CASE n = "0" -> 0
         [] n = "0.0065" -> 650000
         [] n = "0.0105" -> 1050000
         [] n = "0.5" -> 50000000
         [] n = "2" -> 200000000
         [] n = "5" -> 500000000
         [] n = "-0.5" -> -50000000]

IsFloat(text) == text \in DOMAIN Numerals

FloatOf(text) == Numerals[text]

\* 1 acre = 0.404686 hectares, 1 decimal = 0.00404686 hectares: the area of
\* a hundredth of an acre, which is one decimal.
HundredthAcre == 404686
Hundredth == 1000000

\* acre * 0.404686 + decimal * 0.00404686, for acre and decimal numerals of
\* at most two decimals.
AcreDecimalArea(acre, decimal) ==
    (acre \div Hundredth) * HundredthAcre
    + ((decimal \div Hundredth) * HundredthAcre) \div 100

Pad4(n) ==
    IF n < 10 THEN "000" \o ToString(n)
    ELSE IF n < 100 THEN "00" \o ToString(n)
    ELSE IF n < 1000 THEN "0" \o ToString(n)
    ELSE ToString(n)

\* f"{x:.4f}": x rounded to the nearest 10^-4
Format4(x) ==
    LET m == IF x < 0 THEN -x ELSE x
        r == (m + 5000) \div 10000
    IN (IF x < 0 THEN "-" ELSE "") \o ToString(r \div 10000) \o "." \o Pad4(r % 10000)

\* f"{total_area:.4f} hectares"
FormatArea(x) == Format4(x) \o " hectares"

RECURSIVE SumAreas(_)
SumAreas(plots) ==
    IF plots = <<>> THEN 0 ELSE plots[1].area + SumAreas(Tail(plots))

\* Python's order of the strings the documents use (by code point).
CodePointOrder ==
    <<"Akil", "BILA", "Bina", "Chand", "GHARABARI", "PADIA", "PATITA">>

StringBefore(a, b) ==
    \E i, j \in 1..Len(CodePointOrder) :
        CodePointOrder[i] = a /\ CodePointOrder[j] = b /\ i < j

\* sorted(list(S))
RECURSIVE Sorted(_)
Sorted(S) ==
    IF S = {} THEN <<>>
    ELSE LET least == CHOOSE x \in S : \A y \in S \ {x} : StringBefore(x, y)
         IN <<least>> \o Sorted(S \ {least})

\* sep.join(q)
RECURSIVE Join(_, _)
Join(q, sep) ==
    IF q = <<>> THEN ""
    ELSE IF Len(q) = 1 THEN q[1]
    ELSE q[1] \o sep \o Join(Tail(q), sep)

----------------------------------------------------------------------------
(* Plot table extractor, Strategy A (table GrdViewRoR).  A row is the      *)
(* sequence of its cell texts.                                             *)

MinColumns == 11
NotesColumn == 13

EmptyPlotDataZeroPlots ==
    [total_plots |-> Str("0"),
     plot_numbers |-> List(<<>>),
     total_area |-> Str("Not found"),
     owner_name |-> Str("Not found"),
     father_name |-> Str("Not found"),
     caste |-> Str("Not found"),
     land_type |-> Str("Not found"),
     other_owners |-> Str("Not found"),
     plots |-> List(<<>>)]

\* _empty_plot_data
EmptyPlotData ==
    [total_plots |-> Str("Not found"),
     plot_numbers |-> List(<<>>),
     total_area |-> Str("Not found"),
     owner_name |-> Str("Not found"),
     father_name |-> Str("Not found"),
     caste |-> Str("Not found"),
     land_type |-> Str("Not found"),
     other_owners |-> Str("Not found"),
     plots |-> List(<<>>)]

\* Lines 482-487
RowAreaA(area_str) == IF IsFloat(area_str) THEN FloatOf(area_str) ELSE 0

\* Lines 473-504: the record of one row of at least 11 cells.
PlotInfoA(cells) ==
    LET base == [plot_number |-> cells[2],
                 area |-> RowAreaA(cells[5]),
                 land_type |-> cells[3],
                 plot_type |-> cells[4],
                 owner |-> cells[9],
                 father |-> cells[10],
                 caste |-> cells[11]]
        has_notes == /\ Len(cells) > NotesColumn
                     /\ cells[NotesColumn + 1] # ""
                     /\ cells[NotesColumn + 1] # "&nbsp;"
    IN IF has_notes THEN base @@ [notes |-> cells[NotesColumn + 1]] ELSE base

\* The accumulators of lines 458-464.
ScanStart ==
    [plots |-> <<>>, owners |-> {}, fathers |-> {}, castes |-> {},
     land_types |-> {}, total_area |-> 0]

ScanRowAAssignTotal(acc, cells) ==
    IF Len(cells) < MinColumns THEN acc
    ELSE [plots |-> Append(acc.plots, PlotInfoA(cells)),
          owners |-> acc.owners \cup ({cells[9]} \ {""}),
          fathers |-> acc.fathers \cup ({cells[10]} \ {""}),
          castes |-> acc.castes \cup ({cells[11]} \ {""}),
          land_types |-> acc.land_types \cup ({cells[3]} \ {""}),
          total_area |-> IF IsFloat(cells[5]) THEN FloatOf(cells[5])
                         ELSE acc.total_area]

ScanRowASkipMalformed(acc, cells) ==
    IF Len(cells) < MinColumns \/ ~IsFloat(cells[5]) THEN acc
    ELSE [plots |-> Append(acc.plots, PlotInfoA(cells)),
          owners |-> acc.owners \cup ({cells[9]} \ {""}),
          fathers |-> acc.fathers \cup ({cells[10]} \ {""}),
          castes |-> acc.castes \cup ({cells[11]} \ {""}),
          land_types |-> acc.land_types \cup ({cells[3]} \ {""}),
          total_area |-> acc.total_area + FloatOf(cells[5])]

\* Lines 467-518: one row.  A row of fewer than 11 cells changes nothing.
ScanRowA(acc, cells) ==
    IF Len(cells) < MinColumns THEN acc
    ELSE [plots |-> Append(acc.plots, PlotInfoA(cells)),
          owners |-> acc.owners \cup ({cells[9]} \ {""}),
          fathers |-> acc.fathers \cup ({cells[10]} \ {""}),
          castes |-> acc.castes \cup ({cells[11]} \ {""}),
          land_types |-> acc.land_types \cup ({cells[3]} \ {""}),
          total_area |-> IF IsFloat(cells[5])
                         THEN acc.total_area + FloatOf(cells[5])
                         ELSE acc.total_area]

\* Lines 466-522: the rows in order.
RECURSIVE ScanA(_, _)
ScanA(acc, rows) ==
    IF rows = <<>> THEN acc ELSE ScanA(ScanRowA(acc, Head(rows)), Tail(rows))

PlotNumbersNonEmpty(plots) ==
    LET RECURSIVE Keep(_)
        Keep(q) == IF q = <<>> THEN <<>>
                   ELSE IF Head(q).plot_number = "" THEN Keep(Tail(q))
                   ELSE <<Head(q).plot_number>> \o Keep(Tail(q))
    IN Keep(plots)

\* [p["plot_number"] for p in plots]
PlotNumbers(plots) == [i \in 1..Len(plots) |-> plots[i].plot_number]

OtherOwnersFromFirst(owners_list) ==
    IF Len(owners_list) > 1 THEN Join(owners_list, ", ") ELSE "None mentioned"

\* ", ".join(owners_list[1:]) if len(owners_list) > 1 else "None mentioned"
OtherOwners(owners_list) ==
    IF Len(owners_list) > 1 THEN Join(Tail(owners_list), ", ") ELSE "None mentioned"

LandTypeStr(types) ==
    IF types # {} THEN Join(Sorted(types), " / ") ELSE "Not found"

\* list(S)[0] if S else "Not found": the candidates.  The iteration order of
\* a set of str depends on the process's hash seed, so any member can be first.
FirstOfSet(S) == IF S = {} THEN {"Not found"} ELSE S

\* Lines 524-551, with the picks list(fathers)[0] and list(castes)[0] given.
AggregateA(acc, father_name, caste_name) ==
    LET owners_list == Sorted(acc.owners)
    IN [total_plots |-> Str(ToString(Len(acc.plots))),
        plot_numbers |-> List(PlotNumbers(acc.plots)),
        total_area |-> Str(FormatArea(acc.total_area)),
        owner_name |-> Str(IF owners_list # <<>> THEN owners_list[1] ELSE "Not found"),
        father_name |-> Str(father_name),
        caste |-> Str(caste_name),
        land_type |-> Str(LandTypeStr(acc.land_types)),
        other_owners |-> Str(OtherOwners(owners_list)),
        plots |-> List(acc.plots)]

DataRowsAKeepFirst(table) == table

\* table.find_all('tr')[1:]
DataRowsA(table) == IF table = <<>> THEN <<>> ELSE Tail(table)

----------------------------------------------------------------------------
(* Plot table extractor, Strategy B (table gvRorBack).  A row has its cell *)
(* texts, the texts of its identified spans (by the id fragment the code   *)
(* searches for) and the text of a link in its first cell, if any.         *)

MinColumnsB == 6
HectareColumn == 5
NotesColumnB == 6

\* Lines 583-587 on the first-cell texts the documents use: empty, starting
\* with the Odia words for plot or circle, holding "plot" in any case, or
\* holding the Odia word for remarks.
IsHeaderCell(first_cell_text) ==
    \/ first_cell_text = ""
    \/ first_cell_text \in {"plot nambara", "chakara nama", "Plot No", "mantabya"}

HasSpan(row, kind) == kind \in DOMAIN row.spans

PlotNumberBLinkFirst(row) ==
    IF row.link # NoneV THEN row.link.s
    ELSE IF HasSpan(row, "lblPlotNo") THEN row.spans["lblPlotNo"]
    ELSE row.cells[1]

\* Lines 593-599
PlotNumberB(row) ==
    IF HasSpan(row, "lblPlotNo") THEN row.spans["lblPlotNo"]
    ELSE IF row.link # NoneV THEN row.link.s
    ELSE row.cells[1]

\* Lines 606-611
LandTypeB(row) ==
    IF HasSpan(row, "lblPlotci") THEN row.spans["lblPlotci"]
    ELSE IF HasSpan(row, "lbllType") THEN row.spans["lbllType"]
    ELSE IF Len(row.cells) > 1 THEN row.cells[2] ELSE ""

\* float(text) if text is a non-empty numeral, else the value kept
ParseOr(text, kept) == IF text # "" /\ IsFloat(text) THEN FloatOf(text) ELSE kept

\* Lines 635-648
AcreDecimalB(row) ==
    LET acre_str == IF HasSpan(row, "lblAcre") THEN row.spans["lblAcre"]
                    ELSE IF Len(row.cells) > 3 THEN row.cells[4] ELSE ""
        decimal_str == IF HasSpan(row, "lblDecimil") THEN row.spans["lblDecimil"]
                       ELSE IF Len(row.cells) > 4 THEN row.cells[5] ELSE ""
    IN IF (acre_str # "" /\ ~IsFloat(acre_str))
          \/ (decimal_str # "" /\ ~IsFloat(decimal_str))
       THEN 0
       ELSE AcreDecimalArea(IF acre_str # "" THEN FloatOf(acre_str) ELSE 0,
                            IF decimal_str # "" THEN FloatOf(decimal_str) ELSE 0)

AreaBWithoutCellTier(row) ==
    LET tier1 == IF HasSpan(row, "lblHector")
                 THEN ParseOr(row.spans["lblHector"], 0) ELSE 0
    IN IF tier1 = 0 THEN AcreDecimalB(row) ELSE tier1

\* Lines 614-648: the three tiers.
AreaB(row) ==
    LET tier1 == IF HasSpan(row, "lblHector")
                 THEN ParseOr(row.spans["lblHector"], 0) ELSE 0
        tier2 == IF tier1 = 0 /\ Len(row.cells) > HectareColumn
                 THEN ParseOr(row.cells[HectareColumn + 1], tier1) ELSE tier1
    IN IF tier2 = 0 THEN AcreDecimalB(row) ELSE tier2

\* Lines 653-663
NotesB(row) ==
    LET keep(text) == IF text # "" /\ text # "&nbsp;" THEN text ELSE ""
    IN IF HasSpan(row, "lblPlotRemarks") THEN keep(row.spans["lblPlotRemarks"])
       ELSE IF Len(row.cells) > NotesColumnB THEN keep(row.cells[NotesColumnB + 1])
       ELSE ""

\* Lines 574-603: whether the row yields a record.
IsDataRowB(row) ==
    /\ Len(row.cells) >= MinColumnsB
    /\ ~IsHeaderCell(row.cells[1])
    /\ PlotNumberB(row) # ""
    /\ PlotNumberB(row) # "&nbsp;"

\* The accumulators of lines 567-569.
ScanStartB == [plots |-> <<>>, plot_types |-> {}, total_area |-> 0]

\* Lines 573-678: one row.
ScanRowB(acc, row) ==
    IF ~IsDataRowB(row) THEN acc
    ELSE [plots |-> Append(acc.plots,
                           [plot_number |-> PlotNumberB(row),
                            area |-> AreaB(row),
                            land_type |-> LandTypeB(row),
                            notes |-> NotesB(row)]),
          plot_types |-> acc.plot_types \cup ({LandTypeB(row)} \ {""}),
          total_area |-> acc.total_area + AreaB(row)]

RECURSIVE ScanB(_, _)
ScanB(acc, rows) ==
    IF rows = <<>> THEN acc ELSE ScanB(ScanRowB(acc, Head(rows)), Tail(rows))

\* Lines 681-705: owner, father and caste from the text of the front-page
\* name element.  The tokens "pi:", "swa:", "ja:" and "ba:" stand for the
\* Odia markers of father, husband, caste and residence.
OwnerInfoB(d) ==
    LET i == FindSpanByPattern(d, ".*lblName.*")
        owner_text == IF i = 0 THEN <<>> ELSE d.spans[i].text
        by_pi == SplitOn(owner_text, "pi:")
        father_part == StripWs(SplitOn(by_pi[2], ",")[1])
        by_ja == SplitOn(owner_text, "ja:")
    IN [owner_name |->
          IF owner_text = <<>> THEN "Not found" ELSE Text(StripWs(by_pi[1])),
        father_name |->
          IF Contains(owner_text, "pi:")
          THEN Text(StripWs(SplitOn(SplitOn(father_part, "ja:")[1], "swa:")[1]))
          ELSE "Not found",
        caste |->
          IF Contains(owner_text, "ja:")
          THEN Text(StripWs(SplitOn(by_ja[2], "ba:")[1]))
          ELSE "Not found"]

\* f"{total_area:.4f} hectares" if total_area > 0 else "Not found"
TotalAreaB(total_area) ==
    IF total_area > 0 THEN Str(FormatArea(total_area)) ELSE Str("Not found")

\* str(len(plots)) if plots else "Not found"
TotalPlotsB(plots) ==
    IF plots # <<>> THEN Str(ToString(Len(plots))) ELSE Str("Not found")

AggregateBSentinelsWithoutPlots(acc, owner) ==
    [total_plots |-> TotalPlotsB(acc.plots),
     plot_numbers |-> List(PlotNumbers(acc.plots)),
     total_area |-> TotalAreaB(acc.total_area),
     owner_name |-> Str(IF acc.plots = <<>> THEN "Not found" ELSE owner.owner_name),
     father_name |-> Str(IF acc.plots = <<>> THEN "Not found" ELSE owner.father_name),
     caste |-> Str(IF acc.plots = <<>> THEN "Not found" ELSE owner.caste),
     land_type |-> Str(LandTypeStr(acc.plot_types)),
     other_owners |-> Str("None mentioned"),
     plots |-> List(acc.plots)]

\* Lines 707-721
AggregateB(acc, owner) ==
    [total_plots |-> TotalPlotsB(acc.plots),
     plot_numbers |-> List(PlotNumbers(acc.plots)),
     total_area |-> TotalAreaB(acc.total_area),
     owner_name |-> Str(owner.owner_name),
     father_name |-> Str(owner.father_name),
     caste |-> Str(owner.caste),
     land_type |-> Str(LandTypeStr(acc.plot_types)),
     other_owners |-> Str("None mentioned"),
     plots |-> List(acc.plots)]

\* _extract_srorfront_plot_data
ExtractSrorfrontPlotData(d) == AggregateB(ScanB(ScanStartB, d.tableB.rows), OwnerInfoB(d))

----------------------------------------------------------------------------
(* Metadata extractor.  A comment line is a token sequence; a label is one *)
(* token.                                                                  *)

\* label in token: the metadata labels, of which "thana" is a part of
\* "thana nam" (police station, police station number).
TokenHolds(tok, label) ==
    \/ tok = label
    \/ (label = "thana" /\ tok = "thana nam")

\* odia_label in comment
Holds(comment, label) == \E i \in 1..Len(comment) : TokenHolds(comment[i], label)

span_metadata_fields ==
    <<[pattern |-> ".*lblLastPublishDate.*", label |-> "antima prakashana tarikha"],
      [pattern |-> ".*lblTaxDate.*", label |-> "khajana dharjya tarikha"]>>

metadata_fields ==
    <<"antima prakashana tarikha", "bhada nirddharana tarikha", "thana",
      "thana nam", "tahasil nam", "jami rajaswa">>

Line(label, value) == <<label, ":", " ">> \o value

\* re.search(r':\s*(.+?)(?:\n|$|<)', full_text).group(1), or none: from the
\* first colon that is followed by a character, skip the white space, then
\* take up to the next line break, "<" or the end.
ValueAfterColon(t) ==
    LET WsRun(p) == CHOOSE w \in 0..(Len(t) - p) :
                       /\ \A m \in 1..w : IsWs(t[p + m])
                       /\ (p + w + 1 <= Len(t) => ~IsWs(t[p + w + 1]))
        Starts(p) == {p + 1 + j : j \in {j \in 0..WsRun(p) :
                                    p + 1 + j <= Len(t) /\ t[p + 1 + j] # "\n"}}
        colons == {p \in 1..Len(t) : t[p] = ":" /\ Starts(p) # {}}
    IN IF colons = {} THEN [found |-> FALSE, value |-> <<>>]
       ELSE LET p == CHOOSE c \in colons : \A m \in colons : c <= m
                q == CHOOSE x \in Starts(p) : \A m \in Starts(p) : x >= m
                stops == {e \in (q + 1)..Len(t) : t[e] \in {"\n", "<"}}
                e == IF stops = {} THEN Len(t) + 1
                     ELSE CHOOSE x \in stops : \A m \in stops : x <= m
            IN [found |-> TRUE, value |-> SubSeq(t, q, e - 1)]

\* Lines 754-759
SpecialCaseComments(d) ==
    LET i == FindSpanByPattern(d, ".*lblSpecialCase.*")
    IN IF i # 0 /\ d.spans[i].text # <<>> THEN <<d.spans[i].text>> ELSE <<>>

\* Lines 768-773
RECURSIVE SpanComments(_, _, _)
SpanComments(d, comments, n) ==
    IF n > Len(span_metadata_fields) THEN comments
    ELSE LET f == span_metadata_fields[n]
             i == FindSpanByPattern(d, f.pattern)
         IN SpanComments(d,
                IF i # 0 /\ d.spans[i].text # <<>>
                THEN Append(comments, Line(f.label, d.spans[i].text))
                ELSE comments,
                n + 1)

\* Lines 793-805: the first strong marker that holds the label and whose
\* parent's text has a value after a colon.
StrongComment(d, label) ==
    LET hits == {i \in 1..Len(d.strongs) :
                   /\ label \in d.strongs[i].labels
                   /\ ValueAfterColon(d.strongs[i].ptext).found}
    IN IF hits = {} THEN <<>>
       ELSE LET i == CHOOSE j \in hits : \A m \in hits : j <= m
            IN <<Line(label, StripWs(ValueAfterColon(d.strongs[i].ptext).value))>>

\* Lines 788-805
RECURSIVE StrongComments(_, _, _)
StrongComments(d, comments, n) ==
    IF n > Len(metadata_fields) THEN comments
    ELSE LET label == metadata_fields[n]
             skip == \E c \in 1..Len(comments) : Holds(comments[c], label)
         IN StrongComments(d,
                IF skip THEN comments ELSE comments \o StrongComment(d, label),
                n + 1)

ExtractSpecialCommentsEmptyJoin(d) ==
    LET comments == StrongComments(d, SpanComments(d, SpecialCaseComments(d), 1), 1)
        lines == [i \in 1..Len(comments) |-> Text(comments[i])]
    IN Join(lines, "\n")

\* _extract_special_comments, lines 749-810: no call of the scan raises.
ExtractSpecialComments(d) ==
    LET comments == StrongComments(d, SpanComments(d, SpecialCaseComments(d), 1), 1)
        lines == [i \in 1..Len(comments) |-> Text(comments[i])]
    IN IF comments # <<>> THEN Join(lines, "\n") ELSE "No special comments found"

----------------------------------------------------------------------------
(* The engine: parse_bhulekha_html, that is the constructor followed by    *)
(* extract_khatiyan_details.                                               *)

NoResult == [status |-> "none", data |-> EmptyDict, confidence |-> ""]

\* Lines 199-213
odia_error_data ==
    [key \in {"jilla", "tahasil", "grama", "khatiyan_nambar", "malika_nama",
              "pita_nama", "jati", "mota_plot", "plot_nambar",
              "mota_kshetraphala", "jami_prakara", "bishesha_mantabya",
              "anya_malika"} |-> Str("Extraction failed")]

\* Lines 61-82: the tree is built and, in debug mode, the input is written
\* out.  Neither BeautifulSoup(...) nor print and os.makedirs of the debug
\* block stand inside a try, so the constructor either completes or raises.
Construct ==
    /\ pc = "new"
    /\ \E built \in BOOLEAN :
         /\ pc' = IF built THEN "constructed" ELSE "raised"
         /\ result' = IF built THEN result
                       ELSE [status |-> "raised", data |-> EmptyDict, confidence |-> ""]
    /\ UNCHANGED <<doc, location_data, plot_data, special_comments,
                   extracted_data, odia_data, confidence, prev, runs, server_vars>>

\* Line 163
LocationStage ==
    /\ pc = "constructed"
    /\ location_data' = ExtractLocationInfo(doc)
    /\ pc' = "located"
    /\ UNCHANGED <<doc, plot_data, special_comments, extracted_data, odia_data,
                   confidence, result, prev, runs, server_vars>>

PlotStageAFollowsLocation ==
    /\ pc = "located"
    /\ doc.tableA.present
    /\ LET rows == DataRowsA(doc.tableA.rows)
           acc == ScanA(ScanStart, rows)
       IN IF ~Truthy(ExtractBilingualField(doc, "jilla", "District")[2])
          THEN plot_data' = ExtractSrorfrontPlotData(doc)
          ELSE IF rows = <<>> THEN plot_data' = EmptyPlotData
          ELSE \E father_name \in FirstOfSet(acc.fathers),
                  caste_name \in FirstOfSet(acc.castes) :
                 plot_data' = AggregateA(acc, father_name, caste_name)
    /\ pc' = "plotted"
    /\ UNCHANGED <<doc, location_data, special_comments, extracted_data, odia_data,
                   confidence, result, prev, runs, server_vars>>

\* Line 164, _extract_plot_data on a document with the table GrdViewRoR.
PlotStageA ==
    /\ pc = "located"
    /\ doc.tableA.present
    /\ LET rows == DataRowsA(doc.tableA.rows)
           acc == ScanA(ScanStart, rows)
       IN IF rows = <<>> THEN plot_data' = EmptyPlotData
          ELSE \E father_name \in FirstOfSet(acc.fathers),
                  caste_name \in FirstOfSet(acc.castes) :
                 plot_data' = AggregateA(acc, father_name, caste_name)
    /\ pc' = "plotted"
    /\ UNCHANGED <<doc, location_data, special_comments, extracted_data, odia_data,
                   confidence, result, prev, runs, server_vars>>

\* Line 164, on a document with the table gvRorBack only.
PlotStageB ==
    /\ pc = "located"
    /\ ~doc.tableA.present
    /\ doc.tableB.present
    /\ plot_data' = ExtractSrorfrontPlotData(doc)
    /\ pc' = "plotted"
    /\ UNCHANGED <<doc, location_data, special_comments, extracted_data, odia_data,
                   confidence, result, prev, runs, server_vars>>

\* Line 164, on a document with neither table.
PlotStageNone ==
    /\ pc = "located"
    /\ ~doc.tableA.present
    /\ ~doc.tableB.present
    /\ plot_data' = EmptyPlotData
    /\ pc' = "plotted"
    /\ UNCHANGED <<doc, location_data, special_comments, extracted_data, odia_data,
                   confidence, result, prev, runs, server_vars>>

\* Line 165.  The scan runs inside a try whose handler (lines 812-814)
\* returns a fixed message when any call of the scan raises.
CommentsStage ==
    /\ pc = "plotted"
    /\ \E raised \in BOOLEAN :
         special_comments' = IF raised THEN "Error extracting metadata"
                             ELSE ExtractSpecialComments(doc)
    /\ pc' = "commented"
    /\ UNCHANGED <<doc, location_data, plot_data, extracted_data, odia_data,
                   confidence, result, prev, runs, server_vars>>

\* Lines 168-172
Merge(location, plot, comments) ==
    [special_comments |-> Str(comments)] @@ plot @@ location

\* Lines 168-175
RemapStage ==
    /\ pc = "commented"
    /\ LET call == RemapCall(Merge(location_data, plot_data, special_comments))
       IN /\ extracted_data' = call.english_data
          /\ odia_data' = call.odia_data
    /\ pc' = "remapped"
    /\ UNCHANGED <<doc, location_data, plot_data, special_comments, confidence,
                   result, prev, runs, server_vars>>

\* {k: v for k, v in extracted_data.items() if not k.startswith('native_')}
WithoutNative(data) ==
    [key \in DOMAIN data \ {"native_district", "native_tehsil", "native_village"}
       |-> data[key]]

\* Lines 178-179
ConfidenceStage ==
    /\ pc = "remapped"
    /\ confidence' = CalculateConfidence(WithoutNative(extracted_data))
    /\ pc' = "scored"
    /\ UNCHANGED <<doc, location_data, plot_data, special_comments, extracted_data,
                   odia_data, result, prev, runs, server_vars>>

\* Lines 181-214: the message is printed and the pair returned; if print
\* raises (the message starts with a check mark that an ASCII stdout cannot
\* encode) the handler of line 196 returns the error record.
Returned(printed) ==
    IF printed
    THEN [status |-> "returned", data |-> odia_data, confidence |-> confidence]
    ELSE [status |-> "failed", data |-> odia_error_data, confidence |-> "low"]

ReturnStage ==
    /\ pc = "scored"
    /\ \E printed \in BOOLEAN : result' = Returned(printed)
    /\ pc' = "done"
    /\ UNCHANGED <<doc, location_data, plot_data, special_comments, extracted_data,
                   odia_data, confidence, prev, runs, server_vars>>

\* The caller parses the same markup again (a new parser object, possibly in
\* another process).
MaxRuns == 2

Rerun ==
    /\ pc = "done"
    /\ runs < MaxRuns
    /\ prev' = result
    /\ runs' = runs + 1
    /\ pc' = "new"
    /\ location_data' = EmptyDict
    /\ plot_data' = EmptyDict
    /\ special_comments' = ""
    /\ extracted_data' = EmptyDict
    /\ odia_data' = EmptyDict
    /\ confidence' = ""
    /\ result' = NoResult
    /\ UNCHANGED <<doc, server_vars>>

----------------------------------------------------------------------------
(* The documents.                                                          *)

SeqsUpTo(S, n) == UNION {[1..m -> S] : m \in 0..n}

Strong(labels, in_td, value, ptext) ==
    [labels |-> labels, td |-> in_td, sib |-> in_td, value |-> value, ptext |-> ptext]

Span(id, text) == [id |-> id, text |-> text]

DistrictStrong(value) == Strong({"jilla", "District"}, TRUE, value, <<"jilla / District">>)
TehsilStrong == Strong({"tahasil", "Tahasil"}, TRUE,
                       <<":", " ", "Sadar(od)", " ", "/", " ", "Sadar">>,
                       <<"tahasil / Tahasil">>)
VillageStrong == Strong({"mauja", "Mouza"}, TRUE,
                        <<":", " ", "Chandini(od)", "/", "Unit", " ", "13">>,
                        <<"mauja / Mouza">>)
KhataStrong == Strong({"khatiyanara kramika nambara", "Khata No"}, TRUE,
                      <<":", " ", "123">>, <<"khatiyanara kramika nambara / Khata No">>)

DistrictValues ==
    {<<":", " ", "Kataka", " ", "/", " ", "Cuttack">>,   \* native / english
     <<":", " ", "Cuttack">>,                            \* english only
     <<":", "/", " ", "Cuttack">>,                       \* empty native part
     <<":">>}                                            \* no value

\* The location markers of the labeled-table layout.
LocationStrongs ==
    {<<>>, <<TehsilStrong, VillageStrong, KhataStrong>>}
    \cup {<<DistrictStrong(v)>> : v \in DistrictValues}
    \cup {<<DistrictStrong(v), TehsilStrong>> : v \in DistrictValues}
    \cup {<<DistrictStrong(v), TehsilStrong, VillageStrong, KhataStrong>> :
            v \in DistrictValues}

\* The metadata markers of the labeled-table layout.
MetadataStrongs ==
    {<<>>,
     <<Strong({"antima prakashana tarikha"}, FALSE, <<>>,
              <<"antima prakashana tarikha", " ", ":", " ", "29/03/2003">>),
       Strong({"thana", "thana nam"}, FALSE, <<>>,
              <<"thana nam", ":", " ", "202", "\n", "x">>)>>}

\* The location elements of the identifier-driven layout.
LocationSpans ==
    {<<>>,
     <<Span("gvfront_ctl02_lblDist", <<"Kataka">>),
       Span("gvfront_ctl02_lblTahasil", <<"Sadar(od)">>),
       Span("gvfront_ctl02_lblTehsil", <<"Sadar2(od)">>),
       Span("gvfront_ctl02_lblMouja", <<"Chandini(od)">>),
       Span("gvfront_ctl02_lblKhatiyanslNo", <<"45">>)>>,
     <<Span("gvfront_ctl02_lblDist", <<>>),
       Span("gvfront_ctl02_lblTahasil", <<"Sadar(od)">>)>>}

LabelCells ==
    {<<>>,
     <<[labels |-> {"jilla"}, line |-> NoneV, next_line |-> NoneV],
       [labels |-> {"jilla", "mauja"}, line |-> Str("Kataka"), next_line |-> NoneV],
       [labels |-> {"khatiyanara kramika nambara"}, line |-> NoneV,
        next_line |-> Str("45")]>>}

\* The front-page name element of the identifier-driven layout.
OwnerSpans ==
    {<<>>,
     <<Span("gvfront_ctl02_lblName", <<>>)>>,
     <<Span("gvfront_ctl02_lblName",
            <<"Ram", " ", "pi:", " ", "Hari", " ", "ja:", " ", "Khandayat", " ",
              "ba:", " ", "Puri">>)>>,
     <<Span("gvfront_ctl02_lblName", <<"pi:", " ", "Hari", ",", " ", "Sita">>)>>,
     <<Span("gvfront_ctl02_lblName", <<"Ram", " ", "pi:", " ", "ja:">>)>>}

MetadataSpans ==
    {<<>>,
     <<Span("gvfront_ctl02_lblSpecialCase", <<"thana", " ", "remark">>),
       Span("gvfront_ctl02_lblLastPublishDate", <<"29/03/2003">>)>>}

NoSpans == [kind \in {} |-> ""]

\* Rows of the table GrdViewRoR: the cell texts.
RowsA ==
    {<<"Total", "", "0.0170">>,
     <<"1", "129", "GHARABARI", "", "0.0065", "", "", "", "Akil", "Motiur", "Muslim">>,
     <<"2", "130", "PATITA", "II", "0.0105", "", "", "", "Bina", "Hari", "Hindu",
       "", "", "note">>,
     <<"3", "131", "GHARABARI", "", "abc", "", "", "", "Akil", "Motiur", "Muslim",
       "", "", "">>,
     <<"4", "", "", "", "0", "", "", "", "", "", "">>}

\* Rows of the table gvRorBack.
RowsB ==
    {[cells |-> <<"plot nambara", "kisama", "", "", "", "hectare">>,
      spans |-> NoSpans, link |-> NoneV],
     [cells |-> <<"201", "PADIA", "", "", "", "0.0105", "">>,
      spans |-> [lblPlotNo |-> "201", lbllType |-> "PADIA", lblHector |-> "0.0105"],
      link |-> NoneV],
     [cells |-> <<"x", "BILA", "", "2", "5", "0", "rem">>,
      spans |-> NoSpans, link |-> Str("202")],
     [cells |-> <<"203", "", "", "abc", "", "", "&nbsp;">>,
      spans |-> [lblHector |-> "abc"], link |-> NoneV],
     [cells |-> <<"204", "BILA", "", "", "", "-0.5">>,
      spans |-> [lblPlotRemarks |-> "rem2"], link |-> NoneV]}

MaxRowsA == 3
MaxRowsB == 2

Absent == [present |-> FALSE, rows |-> <<>>]
Table(rows) == [present |-> TRUE, rows |-> rows]

TablesA == {Table(r) : r \in SeqsUpTo(RowsA, MaxRowsA)}
TablesB == {Table(r) : r \in SeqsUpTo(RowsB, MaxRowsB)}

Document(loc_strongs, meta_strongs, loc_spans, owner_span, meta_spans, tds, tableA, tableB) ==
    [strongs |-> loc_strongs \o meta_strongs,
     spans |-> loc_spans \o owner_span \o meta_spans,
     tds |-> tds,
     tableA |-> tableA,
     tableB |-> tableB]

FullStrongs ==
    <<DistrictStrong(<<":", " ", "Kataka", " ", "/", " ", "Cuttack">>),
      TehsilStrong, VillageStrong, KhataStrong>>

FullSpans == CHOOSE q \in LocationSpans : Len(q) = 5

FullOwner == CHOOSE q \in OwnerSpans : Len(q) = 1 /\ Len(q[1].text) > 8

\* Every location layout with a few plot tables, and every plot table with
\* a few location layouts.
Documents ==
    {Document(ls, ms, lp, os, mp, tds, ta, tb) :
        ls \in LocationStrongs, ms \in MetadataStrongs, lp \in LocationSpans,
        os \in {<<>>, FullOwner}, mp \in MetadataSpans, tds \in LabelCells,
        ta \in {Absent}, tb \in {Absent}}
    \cup
    {Document(ls, <<>>, lp, os, <<>>, <<>>, ta, tb) :
        ls \in {<<>>, FullStrongs}, lp \in {FullSpans}, os \in OwnerSpans,
        ta \in {Absent}, tb \in TablesB}
    \cup
    {Document(ls, ms, lp, <<>>, <<>>, <<>>, ta, tb) :
        ls \in {<<>>, FullStrongs}, ms \in MetadataStrongs, lp \in {<<>>, FullSpans},
        ta \in TablesA, tb \in {Absent, Table(<<>>)}}

Init ==
    /\ doc \in Documents
    /\ pc = "new"
    /\ location_data = EmptyDict
    /\ plot_data = EmptyDict
    /\ special_comments = ""
    /\ extracted_data = EmptyDict
    /\ odia_data = EmptyDict
    /\ confidence = ""
    /\ result = NoResult
    /\ prev = NoResult
    /\ runs = 1
    /\ ServerIdle

Next ==
    \/ Construct
    \/ LocationStage
    \/ PlotStageA
    \/ PlotStageB
    \/ PlotStageNone
    \/ CommentsStage
    \/ RemapStage
    \/ ConfidenceStage
    \/ ReturnStage

\* One call of the entry point on any of the documents.
Spec == Init /\ [][Next]_vars

NextRepeat ==
    \/ Next
    \/ Rerun

\* Repeated calls on the same document.
SpecRepeat == Init /\ [][NextRepeat]_vars

\* The remapper is called once more on the record it was given; prev keeps
\* what the first call returned.
RemapAgain ==
    /\ pc = "remapped"
    /\ prev = NoResult
    /\ prev' = [status |-> "remapped", data |-> odia_data, confidence |-> ""]
    /\ LET call == RemapCall(extracted_data)
       IN /\ extracted_data' = call.english_data
          /\ odia_data' = call.odia_data
    /\ UNCHANGED <<pc, doc, location_data, plot_data, special_comments, confidence,
                   result, runs, server_vars>>

NextRemap ==
    \/ Next
    \/ RemapAgain

\* One call of the entry point in which the remapper is applied twice.
SpecRemap == Init /\ [][NextRemap]_vars

----------------------------------------------------------------------------
(* The bilingual locator on its own: _extract_bilingual_field applied to   *)
(* any short sequence of strong markers.                                   *)

BilingualValues ==
    DistrictValues
    \cup {<<":", " ", "Kataka", " ", "/", " ", "Cuttack", " ", "/", " ", "Odisha">>,
          <<":", ":", " ", "Puri">>}

\* A strong marker with or without a parent cell and a following sibling.
Marker(labels, in_td, has_sib, value) ==
    [labels |-> labels, td |-> in_td, sib |-> has_sib, value |-> value,
     ptext |-> <<>>]

BilingualMarkers ==
    {Marker({"jilla", "District"}, TRUE, TRUE, v) : v \in BilingualValues}
    \cup {Marker({"District"}, TRUE, TRUE, <<":", " ", "Khordha">>),
          Marker({"jilla", "District"}, TRUE, FALSE, <<>>),
          Marker({"jilla", "District"}, FALSE, FALSE, <<>>),
          Marker({"thana"}, TRUE, TRUE, <<":", " ", "Sadar">>)}

MaxStrongs == 3

InitBilingual ==
    /\ pc = "markers"
    /\ \E q \in SeqsUpTo(BilingualMarkers, MaxStrongs) :
         doc = [strongs |-> q, spans |-> <<>>, tds |-> <<>>,
                tableA |-> Absent, tableB |-> Absent]
    /\ location_data = EmptyDict
    /\ plot_data = EmptyDict
    /\ special_comments = ""
    /\ extracted_data = EmptyDict
    /\ odia_data = EmptyDict
    /\ confidence = ""
    /\ result = NoResult
    /\ prev = NoResult
    /\ runs = 0
    /\ ServerIdle

\* native_district, district = self._extract_bilingual_field(..., "District")
LocateDistrict ==
    /\ pc = "markers"
    /\ LET found == ExtractBilingualField(doc, "jilla", "District")
       IN location_data' = [native_district |-> found[1], district |-> found[2]]
    /\ pc' = "field_located"
    /\ UNCHANGED <<doc, plot_data, special_comments, extracted_data, odia_data,
                   confidence, result, prev, runs, server_vars>>

NextBilingual == LocateDistrict

SpecBilingual == InitBilingual /\ [][NextBilingual]_vars

----------------------------------------------------------------------------
(* The Strategy A aggregation on its own: _extract_plot_data applied to a  *)
(* table GrdViewRoR of a few data rows, then to the same rows in another   *)
(* order.                                                                  *)

HeaderRowA == <<"Sl", "Plot No">>

AggregateRows ==
    RowsA
    \cup {<<"5", "132", "GHARABARI", "", "0.5", "", "", "", "Chand", "Motiur", "Muslim">>}

MaxDataRows == 3

InitAggregate ==
    /\ pc = "located"
    /\ \E q \in SeqsUpTo(AggregateRows, MaxDataRows) :
         doc = [strongs |-> <<>>, spans |-> <<>>, tds |-> <<>>,
                tableA |-> Table(<<HeaderRowA>> \o q), tableB |-> Absent]
    /\ location_data = ExtractLocationInfo(doc)
    /\ plot_data = EmptyDict
    /\ special_comments = ""
    /\ extracted_data = EmptyDict
    /\ odia_data = EmptyDict
    /\ confidence = ""
    /\ result = NoResult
    /\ prev = NoResult
    /\ runs = 0
    /\ ServerIdle

MaxPermutes == 1

\* The same rows in another order are parsed next; prev keeps the plot data
\* of the first order.
Permute ==
    /\ pc = "plotted"
    /\ runs < MaxPermutes
    /\ LET q == DataRowsA(doc.tableA.rows)
       IN \E f \in Permutations(1..Len(q)) :
            doc' = [doc EXCEPT !.tableA =
                      Table(<<HeaderRowA>> \o [i \in 1..Len(q) |-> q[f[i]]])]
    /\ prev' = [status |-> "plotted", data |-> plot_data, confidence |-> ""]
    /\ runs' = runs + 1
    /\ plot_data' = EmptyDict
    /\ pc' = "located"
    /\ UNCHANGED <<location_data, special_comments, extracted_data, odia_data,
                   confidence, result, server_vars>>

NextAggregate ==
    \/ PlotStageA
    \/ Permute

SpecAggregate == InitAggregate /\ [][NextAggregate]_vars

----------------------------------------------------------------------------
(* The Strategy B row area on its own: _extract_srorfront_plot_data        *)
(* applied to a table gvRorBack whose rows state their area in every       *)
(* combination of hectare element, hectare cell, acre and decimal.         *)

\* A row of gvRorBack: hectare is the text of its lblHector element, if it
\* has one (a sequence of at most one text); the acre text lies in an
\* lblAcre element or in the cell of index 3.
AreaRow(hectare, cell5, acre, decimal, acre_in_span) ==
    [cells |-> <<"301", "PADIA", "", IF acre_in_span THEN "" ELSE acre, decimal, cell5>>,
     spans |-> (IF hectare # <<>> THEN "lblHector" :> hectare[1] ELSE NoSpans)
               @@ (IF acre_in_span THEN "lblAcre" :> acre ELSE NoSpans),
     link |-> NoneV]

AreaRowsB ==
    {AreaRow(hectare, cell5, acre, decimal, acre_in_span) :
        hectare \in {<<>>, <<"0.0065">>, <<"0">>, <<"abc">>, <<"">>},
        cell5 \in {"0.5", "0", "abc", ""},
        acre \in {"2", "abc", ""},
        decimal \in {"5", "abc", ""},
        acre_in_span \in BOOLEAN}

MaxAreaRows == 1

InitAreaB ==
    /\ pc = "located"
    /\ \E q \in SeqsUpTo(AreaRowsB, MaxAreaRows) :
         doc = [strongs |-> <<>>, spans |-> <<>>, tds |-> <<>>,
                tableA |-> Absent, tableB |-> Table(q)]
    /\ location_data = ExtractLocationInfo(doc)
    /\ plot_data = EmptyDict
    /\ special_comments = ""
    /\ extracted_data = EmptyDict
    /\ odia_data = EmptyDict
    /\ confidence = ""
    /\ result = NoResult
    /\ prev = NoResult
    /\ runs = 0
    /\ ServerIdle

NextAreaB == PlotStageB

SpecAreaB == InitAreaB /\ [][NextAreaB]_vars

----------------------------------------------------------------------------
(* The confidence classifier on its own: _calculate_confidence applied to  *)
(* any record, then to the record with one more required field replaced   *)
(* by a sentinel.                                                          *)

PlainRecord(present) ==
    [key \in SeqToSet(required_fields) \cup {"land_type"} |->
       IF key = "plot_numbers"
       THEN (IF key \in present THEN List(<<"129", "130">>) ELSE List(<<>>))
       ELSE (IF key \in present THEN Str("Cuttack") ELSE Str("Not found"))]

Sentinels == {Str("Not found"), Str("Extraction failed"), Str(""), List(<<>>)}

MaxReplaced == 1

InitConf ==
    /\ pc = "record"
    /\ \E present \in SUBSET SeqToSet(required_fields) :
         extracted_data = PlainRecord(present)
    /\ doc = [strongs |-> <<>>, spans |-> <<>>, tds |-> <<>>,
              tableA |-> Absent, tableB |-> Absent]
    /\ location_data = EmptyDict
    /\ plot_data = EmptyDict
    /\ special_comments = ""
    /\ odia_data = EmptyDict
    /\ confidence = ""
    /\ result = NoResult
    /\ prev = NoResult
    /\ runs = 0
    /\ ServerIdle

\* confidence = self._calculate_confidence(data)
Classify ==
    /\ pc = "record"
    /\ confidence' = CalculateConfidence(extracted_data)
    /\ pc' = "classified"
    /\ UNCHANGED <<doc, location_data, plot_data, special_comments, extracted_data,
                   odia_data, result, prev, runs, server_vars>>

\* One present required field is replaced by a sentinel, or its key is
\* removed, and the record is classified again; prev keeps the level before.
Replace ==
    /\ pc = "classified"
    /\ runs < MaxReplaced
    /\ \E i \in 1..Len(required_fields) :
         /\ FieldPresent(GetOrEmpty(extracted_data, required_fields[i]))
         /\ \/ \E v \in Sentinels :
                 extracted_data' = [extracted_data EXCEPT ![required_fields[i]] = v]
            \/ extracted_data' =
                 [key \in DOMAIN extracted_data \ {required_fields[i]} |->
                    extracted_data[key]]
    /\ confidence' = CalculateConfidence(extracted_data')
    /\ prev' = [status |-> "classified", data |-> extracted_data,
                confidence |-> confidence]
    /\ runs' = runs + 1
    /\ UNCHANGED <<pc, doc, location_data, plot_data, special_comments, odia_data,
                   result, server_vars>>

NextConf ==
    \/ Classify
    \/ Replace

SpecConf == InitConf /\ [][NextConf]_vars

----------------------------------------------------------------------------
(* The identifier locator on its own: _extract_srorfront_field applied to  *)
(* any few identified elements and label cells, for the tehsil field.      *)

\* Line 410: the candidate identifiers of the tehsil field.
TehsilSpanIds == <<"gvfront_ctl02_lblTehsil", "gvfront_ctl02_lblTahasil">>

LocatorSpans ==
    {Span("gvfront_ctl02_lblTehsil", <<"Sadar2(od)">>),
     Span("gvfront_ctl02_lblTehsil", <<>>),
     Span("gvfront_ctl02_lblTahasil", <<"Sadar(od)">>),
     Span("gvfront_ctl02_lblDist", <<"Kataka">>)}

LocatorCells ==
    {[labels |-> {"tahasil"}, line |-> NoneV, next_line |-> NoneV],
     [labels |-> {"tahasil"}, line |-> Str("Sadar3(od)"), next_line |-> NoneV],
     [labels |-> {"jilla", "tahasil"}, line |-> Str(""), next_line |-> NoneV],
     [labels |-> {"jilla"}, line |-> Str("Kataka"), next_line |-> NoneV]}

MaxSpans == 2
MaxCells == 2

InitLocator ==
    /\ pc = "elements"
    /\ \E spans \in SeqsUpTo(LocatorSpans, MaxSpans),
          tds \in SeqsUpTo(LocatorCells, MaxCells) :
         doc = [strongs |-> <<>>, spans |-> spans, tds |-> tds,
                tableA |-> Absent, tableB |-> Absent]
    /\ location_data = EmptyDict
    /\ plot_data = EmptyDict
    /\ special_comments = ""
    /\ extracted_data = EmptyDict
    /\ odia_data = EmptyDict
    /\ confidence = ""
    /\ result = NoResult
    /\ prev = NoResult
    /\ runs = 0
    /\ ServerIdle

\* tehsil, native_tehsil = self._extract_srorfront_field(..., [...])
LocateTehsil ==
    /\ pc = "elements"
    /\ LET found == ExtractSrorfrontField(doc, "tahasil", TehsilSpanIds)
       IN location_data' = [tehsil |-> found[1], native_tehsil |-> found[2]]
    /\ pc' = "element_located"
    /\ UNCHANGED <<doc, plot_data, special_comments, extracted_data, odia_data,
                   confidence, result, prev, runs, server_vars>>

NextLocator == LocateTehsil

SpecLocator == InitLocator /\ [][NextLocator]_vars

----------------------------------------------------------------------------
(* The Strategy B row selection on its own: _extract_srorfront_plot_data   *)
(* applied to a table gvRorBack of data rows, header rows and short rows   *)
(* in any order.                                                           *)

SelectionRowsB ==
    RowsB
    \cup {[cells |-> <<"205", "PADIA", "", "", "0.5">>,
           spans |-> NoSpans, link |-> NoneV],
          [cells |-> <<"", "PADIA", "", "", "", "0.5">>,
           spans |-> [lblPlotNo |-> "206"], link |-> NoneV],
          [cells |-> <<"207", "PADIA", "", "", "", "0.5">>,
           spans |-> [lblPlotNo |-> ""], link |-> Str("207")],
          [cells |-> <<"y", "PADIA", "", "", "", "0.5">>,
           spans |-> [lblPlotNo |-> "208"], link |-> Str("209")],
          [cells |-> <<"&nbsp;", "PADIA", "", "", "", "0.5">>,
           spans |-> NoSpans, link |-> NoneV]}

MaxSelectionRows == 3

InitSelectionB ==
    /\ pc = "located"
    /\ \E q \in SeqsUpTo(SelectionRowsB, MaxSelectionRows) :
         doc = [strongs |-> <<>>, spans |-> <<>>, tds |-> <<>>,
                tableA |-> Absent, tableB |-> Table(q)]
    /\ location_data = ExtractLocationInfo(doc)
    /\ plot_data = EmptyDict
    /\ special_comments = ""
    /\ extracted_data = EmptyDict
    /\ odia_data = EmptyDict
    /\ confidence = ""
    /\ result = NoResult
    /\ prev = NoResult
    /\ runs = 0
    /\ ServerIdle

NextSelectionB == PlotStageB

SpecSelectionB == InitSelectionB /\ [][NextSelectionB]_vars

----------------------------------------------------------------------------
(* The Strategy B owner fields on their own: _extract_srorfront_plot_data  *)
(* applied to a page with a front-page name element and a table gvRorBack, *)
(* then to the same page with other rows in the table.                     *)

MaxOwnerRows == 2

InitOwnerB ==
    /\ pc = "located"
    /\ \E os \in OwnerSpans, q \in SeqsUpTo(RowsB, MaxOwnerRows) :
         doc = [strongs |-> <<>>, spans |-> os, tds |-> <<>>,
                tableA |-> Absent, tableB |-> Table(q)]
    /\ location_data = ExtractLocationInfo(doc)
    /\ plot_data = EmptyDict
    /\ special_comments = ""
    /\ extracted_data = EmptyDict
    /\ odia_data = EmptyDict
    /\ confidence = ""
    /\ result = NoResult
    /\ prev = NoResult
    /\ runs = 0
    /\ ServerIdle

\* The page is parsed once more with other rows in its plot table; prev
\* keeps the plot data of the first rows.
ReplaceRows ==
    /\ pc = "plotted"
    /\ runs = 0
    /\ \E q \in SeqsUpTo(RowsB, MaxOwnerRows) :
         doc' = [doc EXCEPT !.tableB = Table(q)]
    /\ prev' = [status |-> "plotted", data |-> plot_data, confidence |-> ""]
    /\ runs' = runs + 1
    /\ plot_data' = EmptyDict
    /\ pc' = "located"
    /\ UNCHANGED <<location_data, special_comments, extracted_data, odia_data,
                   confidence, result, server_vars>>

NextOwnerB ==
    \/ PlotStageB
    \/ ReplaceRows

SpecOwnerB == InitOwnerB /\ [][NextOwnerB]_vars

----------------------------------------------------------------------------
(* The /explain handler, explain_content of src/api_server.py.  The page   *)
(* it receives is parsed by the parser above; the translation agent and    *)
(* the Supabase tables are services whose answers are inputs.              *)

HTTPException(status_code, detail) == [status |-> status_code, detail |-> detail]

\* An exception that is not an HTTPException.
Error(message) == [status |-> 0, detail |-> message]

\* Lines 996, 1160-1161: the handler's body stands in one try whose only
\* clause is "except Exception", so every exception raised in the body, an
\* HTTPException included, is replaced by a 500 whose detail quotes it.
ExplainCaught(e) == HTTPException(500, <<"Error generating explanation">> \o e.detail)

\* The pages a request carries: every location layout with at most one row
\* in a plot table.
ExplainPages ==
    {Document(ls, ms, lp, os, <<>>, <<>>, ta, tb) :
        ls \in {<<>>, FullStrongs}, ms \in MetadataStrongs, lp \in {<<>>, FullSpans},
        os \in {<<>>, FullOwner},
        ta \in {Absent} \cup {Table(<<r>>) : r \in RowsA},
        tb \in {Absent} \cup {Table(<<r>>) : r \in RowsB}}

\* A request has arrived; the module's Supabase client is configured or not
\* (lines 92-102).
InitExplain ==
    /\ doc \in ExplainPages
    /\ pc = "idle"
    /\ location_data = EmptyDict
    /\ plot_data = EmptyDict
    /\ special_comments = ""
    /\ extracted_data = EmptyDict
    /\ odia_data = EmptyDict
    /\ confidence = ""
    /\ result = NoResult
    /\ prev = NoResult
    /\ runs = MaxRuns
    /\ explain_pc = "received"
    /\ supabase_client \in BOOLEAN
    /\ khatiyan_data_en = "unset"
    /\ record_id = 0
    /\ cached_extraction = FALSE
    /\ calls = <<>>
    /\ response = NoResponse
    /\ RecordsIdle
    /\ PromptIdle
    /\ LoaderIdle

\* Lines 997-1018: the URL is checked and the page handed to the parser.
ExplainReceive ==
    /\ explain_pc = "received"
    /\ \E allowed \in BOOLEAN :
         IF allowed
         THEN /\ explain_pc' = "parsing"
              /\ pc' = "new"
              /\ response' = response
         ELSE /\ explain_pc' = "responded"
              /\ pc' = pc
              /\ response' = ExplainCaught(HTTPException(403, <<"Access denied">>))
    /\ UNCHANGED <<doc, location_data, plot_data, special_comments, extracted_data,
                   odia_data, confidence, result, prev, runs>>
    /\ UNCHANGED <<supabase_client, khatiyan_data_en, record_id, cached_extraction,
                   calls, records_vars, prompt_vars, loader_vars>>

\* Lines 1018-1036: the parser has returned or its constructor has raised;
\* a confidence other than "high" raises the 422 inside the handler's try.
ExplainConfidence ==
    /\ explain_pc = "parsing"
    /\ pc \in {"done", "raised"}
    /\ IF pc = "raised"
       THEN /\ response' = ExplainCaught(Error(<<"parser">>))
            /\ explain_pc' = "responded"
       ELSE IF result.confidence # "high"
       THEN /\ response' = ExplainCaught(HTTPException(422,
                              <<"Unable to extract data from this page">>))
            /\ explain_pc' = "responded"
       ELSE /\ response' = response
            /\ explain_pc' = "translating"
    /\ UNCHANGED <<parser_vars, supabase_client, khatiyan_data_en, record_id,
                   cached_extraction, calls,
                   records_vars, prompt_vars, loader_vars>>

\* What translate_odia_to_english returns: an empty dictionary, one with
\* the four key fields, or one that lacks a key field.
Translations == {"empty", "keyed", "unkeyed"}

\* Lines 1040-1052
ExplainTranslate ==
    /\ explain_pc = "translating"
    /\ calls' = Append(calls, "translate_odia_to_english")
    /\ \/ /\ response' = ExplainCaught(HTTPException(500,
                            <<"Extraction successful but translation failed">>))
          /\ explain_pc' = "responded"
          /\ khatiyan_data_en' = khatiyan_data_en
       \/ /\ khatiyan_data_en' \in Translations
          /\ explain_pc' = "lookup"
          /\ response' = response
    /\ UNCHANGED <<parser_vars, supabase_client, record_id, cached_extraction,
                   records_vars, prompt_vars, loader_vars>>

\* The identifiers the record table hands out.
RecordIds == {1}

\* Lines 1055-1097: the record and a recent extraction of it are looked up;
\* an exception of either query is caught and printed (lines 1096-1097).
ExplainLookup ==
    /\ explain_pc = "lookup"
    /\ IF supabase_client /\ khatiyan_data_en = "keyed"
       THEN \/ /\ calls' = Append(calls, "select khatiyan_records")
               /\ record_id' = record_id
               /\ cached_extraction' = cached_extraction
            \/ /\ calls' = calls \o <<"select khatiyan_records",
                                      "select khatiyan_extractions">>
               /\ record_id' \in RecordIds
               /\ cached_extraction' \in BOOLEAN
       ELSE UNCHANGED <<calls, record_id, cached_extraction>>
    /\ explain_pc' = "create"
    /\ UNCHANGED <<parser_vars, supabase_client, khatiyan_data_en, response,
                   records_vars, prompt_vars, loader_vars>>

\* Lines 1099-1123: get_or_create_khatiyan_record returns an identifier,
\* or None when it fails.
ExplainCreate ==
    /\ explain_pc = "create"
    /\ IF record_id = 0 /\ khatiyan_data_en = "keyed" /\ supabase_client
       THEN /\ calls' = Append(calls, "get_or_create_khatiyan_record")
            /\ record_id' \in RecordIds \cup {0}
       ELSE UNCHANGED <<calls, record_id>>
    /\ explain_pc' = "store"
    /\ UNCHANGED <<parser_vars, supabase_client, khatiyan_data_en,
                   cached_extraction, response,
                   records_vars, prompt_vars, loader_vars>>

\* Lines 1125-1142
ExplainStore ==
    /\ explain_pc = "store"
    /\ calls' = IF record_id # 0 /\ ~cached_extraction
                THEN Append(calls, "store_khatiyan_extraction")
                ELSE calls
    /\ explain_pc' = "explaining"
    /\ UNCHANGED <<parser_vars, supabase_client, khatiyan_data_en, record_id,
                   cached_extraction, response,
                   records_vars, prompt_vars, loader_vars>>

\* Lines 1144-1158
ExplainReturn ==
    /\ explain_pc = "explaining"
    /\ calls' = Append(calls, "explain_content")
    /\ response' = [status |-> 200, detail |-> <<"explanation">>]
    /\ explain_pc' = "responded"
    /\ UNCHANGED <<parser_vars, supabase_client, khatiyan_data_en, record_id,
                   cached_extraction,
                   records_vars, prompt_vars, loader_vars>>

NextExplain ==
    \/ ExplainReceive
    \/ Construct
    \/ LocationStage
    \/ PlotStageA
    \/ PlotStageB
    \/ PlotStageNone
    \/ CommentsStage
    \/ RemapStage
    \/ ConfidenceStage
    \/ ReturnStage
    \/ ExplainConfidence
    \/ ExplainTranslate
    \/ ExplainLookup
    \/ ExplainCreate
    \/ ExplainStore
    \/ ExplainReturn

\* One /explain request.
SpecExplain == InitExplain /\ [][NextExplain]_vars

----------------------------------------------------------------------------
(* The record table: get_or_create_khatiyan_record of src/api_server.py,   *)
(* called by requests that run in the same or in different processes.      *)

\* The parser is not running.
ParserIdle ==
    /\ pc = "idle"
    /\ doc = [strongs |-> <<>>, spans |-> <<>>, tds |-> <<>>,
              tableA |-> Absent, tableB |-> Absent]
    /\ location_data = EmptyDict
    /\ plot_data = EmptyDict
    /\ special_comments = ""
    /\ extracted_data = EmptyDict
    /\ odia_data = EmptyDict
    /\ confidence = ""
    /\ result = NoResult
    /\ prev = NoResult
    /\ runs = 0

MaxRequests == 2

Requests == 1..MaxRequests

\* Two processes of the server (Lambda instances or workers).
Processes == {"p1", "p2"}

\* (district, tehsil, village, khatiyan_number)
RecordKeys ==
    {<<"Cuttack", "Sadar", "Chandini", "45">>,
     <<"Cuttack", "Sadar", "Chandini", "46">>}

Row(id, key) == [id |-> id, key |-> key]

\* .select("id").eq(...).limit(1).execute(): the rows with the key.
SelectByKey(table, key) == {i \in 1..Len(table) : table[i].key = key}

\* .insert(data).execute(): the table gives the new row its identifier.
InsertRow(table, key) == Append(table, Row(Len(table) + 1, key))

InitRecords ==
    /\ ParserIdle
    /\ ExplainIdle
    /\ PromptIdle
    /\ LoaderIdle
    /\ khatiyan_records \in {<<>>, <<Row(1, CHOOSE k \in RecordKeys : TRUE)>>}
    /\ process \in [Requests -> Processes]
    /\ record_key \in [Requests -> RecordKeys]
    /\ record_pc = [r \in Requests |-> "called"]
    /\ returned = [r \in Requests |-> 0]

\* The function has no await between its select and its insert, so within
\* one process (one event loop) no other request runs between the two.
Scheduled(r) ==
    /\ r \in DOMAIN record_pc
    /\ \A o \in Requests \ {r} :
          process[o] = process[r] => record_pc[o] # "selected"

\* Lines 645-659: the row with the key is looked up; when one is found its
\* identifier is returned.  A query that raises ends in the handler of
\* lines 680-682, which returns None.
RecordSelect(r) ==
    /\ Scheduled(r)
    /\ record_pc[r] = "called"
    /\ LET hits == SelectByKey(khatiyan_records, record_key[r])
       IN \/ /\ hits # {}
             /\ \E i \in hits :
                  returned' = [returned EXCEPT ![r] = khatiyan_records[i].id]
             /\ record_pc' = [record_pc EXCEPT ![r] = "returned"]
          \/ /\ hits = {}
             /\ returned' = returned
             /\ record_pc' = [record_pc EXCEPT ![r] = "selected"]
          \/ /\ returned' = returned
             /\ record_pc' = [record_pc EXCEPT ![r] = "returned"]
    /\ UNCHANGED <<khatiyan_records, process, record_key>>
    /\ UNCHANGED <<parser_vars, explain_vars, prompt_vars, loader_vars>>

\* Lines 661-682: the row is inserted and its identifier returned; an
\* insert that raises returns None.  The insert names no conflict target
\* and the code declares no uniqueness of the key, so the table takes a
\* row whatever rows it holds.
RecordInsert(r) ==
    /\ Scheduled(r)
    /\ record_pc[r] = "selected"
    /\ \/ /\ khatiyan_records' = InsertRow(khatiyan_records, record_key[r])
          /\ returned' = [returned EXCEPT ![r] = Len(khatiyan_records) + 1]
       \/ /\ khatiyan_records' = khatiyan_records
          /\ returned' = returned
    /\ record_pc' = [record_pc EXCEPT ![r] = "returned"]
    /\ UNCHANGED <<process, record_key>>
    /\ UNCHANGED <<parser_vars, explain_vars, prompt_vars, loader_vars>>

NextRecords ==
    \/ \E r \in Requests : RecordSelect(r)
    \/ \E r \in Requests : RecordInsert(r)

\* Concurrent calls of get_or_create_khatiyan_record.
SpecRecords == InitRecords /\ [][NextRecords]_vars

----------------------------------------------------------------------------
(* The prompt service: PromptService of src/prompt_service.py.  The HTTP   *)
(* API and the fallback file are inputs; time is counted in seconds.       *)

MaxCalls == 2
MaxClock == 3

PromptIds == {1, 2}

\* cache_key = str(prompt_id)
CacheKey(prompt_id) == IF prompt_id = 1 THEN "1" ELSE "2"

ApiPrompt == "prompt of the API"
FilePrompt == "prompt of the file"

\* What one HTTP request of _fetch_from_api ends in: a 2xx response with a
\* prompt, a 2xx response without one, httpx.TimeoutException,
\* httpx.ConnectError, a 4xx status, a 5xx status, any other exception.
Responses == {"ok", "no prompt", "timeout", "connect", "4xx", "5xx", "other"}

Event(kind, outcome, seconds) == [kind |-> kind, outcome |-> outcome, seconds |-> seconds]

Returns(prompt) == [status |-> "returned", prompt |-> prompt, at |-> now]
Raises == [status |-> "raised", prompt |-> "", at |-> now]

IsCacheValidInclusive(cache_key) ==
    /\ cache_key \in DOMAIN cache
    /\ now - cache[cache_key].fetched_at <= cache_ttl_seconds

\* _is_cache_valid, lines 210-226
IsCacheValid(cache_key) ==
    /\ cache_key \in DOMAIN cache
    /\ now - cache[cache_key].fetched_at < cache_ttl_seconds

\* self._cache[cache_key] = {"prompt": ..., "fetched_at": time.time(), "source": ...}
Cached(cache_key, prompt, source) ==
    [k \in DOMAIN cache \cup {cache_key} |->
        IF k = cache_key
        THEN [prompt |-> prompt, fetched_at |-> now, source |-> source]
        ELSE cache[k]]

\* PromptService.__init__, lines 40-47, with the configuration of
\* src/api_server.py lines 110-111.
InitPrompt ==
    /\ ParserIdle
    /\ ExplainIdle
    /\ RecordsIdle
    /\ LoaderIdle
    /\ cache_ttl_seconds \in {1, 2}
    /\ max_retries \in {1, 2}
    /\ cache = <<>>
    /\ now = 0
    /\ get_pc = "idle"
    /\ get_call = <<>>
    /\ attempt = 0
    /\ io = <<>>
    /\ get_result = <<>>
    /\ get_calls = 0

\* get_prompt, lines 77-89: a valid cache entry is returned unless the
\* caller forces a refresh; otherwise _fetch_from_api is called.
GetPrompt ==
    /\ get_pc \in {"idle", "done"}
    /\ get_calls < MaxCalls
    /\ get_calls' = get_calls + 1
    /\ \E prompt_id \in PromptIds, fallback_filename \in {NoneV, Str("ror_summary.txt")},
          force_refresh \in BOOLEAN :
         /\ get_call' = [prompt_id |-> prompt_id,
                         fallback_filename |-> fallback_filename,
                         force_refresh |-> force_refresh,
                         called_at |-> now,
                         cache_before |-> cache]
         /\ IF ~force_refresh /\ IsCacheValid(CacheKey(prompt_id))
            THEN /\ get_result' = Returns(cache[CacheKey(prompt_id)].prompt)
                 /\ get_pc' = "done"
                 /\ io' = <<>>
            ELSE /\ get_result' = <<>>
                 /\ get_pc' = "fetching"
                 /\ io' = <<Event("fetch", "", 0)>>
    /\ attempt' = 0
    /\ UNCHANGED <<cache_ttl_seconds, max_retries, cache, now>>
    /\ UNCHANGED <<parser_vars, explain_vars, records_vars, loader_vars>>

\* Line 170: a 4xx status is not retried.
NotRetried(outcome) == outcome = "4xx"

BackoffAfterEveryAttempt(n) == 2 ^ n

\* Lines 177-181: the wait after attempt n (counted from 0), 0 for none.
Backoff(n) == IF n < max_retries - 1 THEN 2 ^ n ELSE 0

\* _fetch_from_api, lines 143-181: one turn of the loop, the request and
\* the sleep that follows it.
FetchAttempt ==
    /\ get_pc = "fetching"
    /\ attempt < max_retries
    /\ \E outcome \in Responses :
         IF outcome = "ok"
         THEN /\ io' = io \o <<Event("get", outcome, 0), Event("fetch returned", "", 0)>>
              /\ get_pc' = "fetched"
              /\ UNCHANGED <<attempt, now>>
         ELSE IF NotRetried(outcome)
         THEN /\ io' = io \o <<Event("get", outcome, 0), Event("fetch raised", "", 0)>>
              /\ get_pc' = "failed"
              /\ UNCHANGED <<attempt, now>>
         ELSE /\ io' = io \o <<Event("get", outcome, 0)>>
                       \o (IF Backoff(attempt) > 0
                           THEN <<Event("sleep", "", Backoff(attempt))>> ELSE <<>>)
              /\ now' = now + Backoff(attempt)
              /\ attempt' = attempt + 1
              /\ get_pc' = get_pc
    /\ UNCHANGED <<cache_ttl_seconds, max_retries, cache, get_call, get_result,
                   get_calls>>
    /\ UNCHANGED <<parser_vars, explain_vars, records_vars, loader_vars>>

\* Lines 183-186: the loop has run out.
FetchExhausted ==
    /\ get_pc = "fetching"
    /\ attempt >= max_retries
    /\ io' = Append(io, Event("fetch raised", "", 0))
    /\ get_pc' = "failed"
    /\ UNCHANGED <<cache_ttl_seconds, max_retries, cache, now, get_call, attempt,
                   get_result, get_calls>>
    /\ UNCHANGED <<parser_vars, explain_vars, records_vars, loader_vars>>

\* get_prompt, lines 90-98
GetPromptStore ==
    /\ get_pc = "fetched"
    /\ cache' = Cached(CacheKey(get_call.prompt_id), ApiPrompt, "api")
    /\ get_result' = Returns(ApiPrompt)
    /\ get_pc' = "done"
    /\ UNCHANGED <<cache_ttl_seconds, max_retries, now, get_call, attempt, io,
                   get_calls>>
    /\ UNCHANGED <<parser_vars, explain_vars, records_vars, loader_vars>>

\* get_prompt, lines 100-124: the fallback file, when one is named, is
\* read; the read returns the file's text or raises.
GetPromptFallback ==
    /\ get_pc = "failed"
    /\ IF Truthy(get_call.fallback_filename)
       THEN /\ io' = Append(io, Event("open", "", 0))
            /\ \/ /\ cache' = Cached(CacheKey(get_call.prompt_id), FilePrompt, "file")
                  /\ get_result' = Returns(FilePrompt)
               \/ /\ cache' = cache
                  /\ get_result' = Raises
       ELSE /\ io' = io
            /\ cache' = cache
            /\ get_result' = Raises
    /\ get_pc' = "done"
    /\ UNCHANGED <<cache_ttl_seconds, max_retries, now, get_call, attempt, get_calls>>
    /\ UNCHANGED <<parser_vars, explain_vars, records_vars, loader_vars>>

\* A second passes between two calls.
Tick ==
    /\ get_pc \in {"idle", "done"}
    /\ get_calls < MaxCalls
    /\ now < MaxClock
    /\ now' = now + 1
    /\ UNCHANGED <<cache_ttl_seconds, max_retries, cache, get_pc, get_call, attempt,
                   io, get_result, get_calls>>
    /\ UNCHANGED <<parser_vars, explain_vars, records_vars, loader_vars>>

NextPrompt ==
    \/ GetPrompt
    \/ FetchAttempt
    \/ FetchExhausted
    \/ GetPromptStore
    \/ GetPromptFallback
    \/ Tick

\* Calls of get_prompt, one after the other.
SpecPrompt == InitPrompt /\ [][NextPrompt]_vars

----------------------------------------------------------------------------
(* The retry loop on its own: _fetch_from_api called by get_prompt on an   *)
(* empty cache, for every configured number of attempts.                   *)

\* max_retries as configured (the default of line 27 is 3).
RetryLimits == {0, 1, 2, 3}

InitFetch ==
    /\ ParserIdle
    /\ ExplainIdle
    /\ RecordsIdle
    /\ LoaderIdle
    /\ cache_ttl_seconds = 1
    /\ max_retries \in RetryLimits
    /\ cache = <<>>
    /\ now = 0
    /\ get_pc = "fetching"
    /\ \E prompt_id \in PromptIds, fallback_filename \in {NoneV, Str("ror_summary.txt")} :
         get_call = [prompt_id |-> prompt_id,
                     fallback_filename |-> fallback_filename,
                     force_refresh |-> FALSE,
                     called_at |-> now,
                     cache_before |-> cache]
    /\ attempt = 0
    /\ io = <<Event("fetch", "", 0)>>
    /\ get_result = <<>>
    /\ get_calls = MaxCalls

NextFetch ==
    \/ FetchAttempt
    \/ FetchExhausted

SpecFetch == InitFetch /\ [][NextFetch]_vars

----------------------------------------------------------------------------
(* The lazy prompt loader, src/api_server.py lines 127-178.                *)
(*                                                                         *)
(* /summarize requests of one process are coroutines of one event loop: a  *)
(* request runs until it awaits I/O, and another request may run while it  *)
(* waits.  The loader awaits once, at the call of get_prompt (line 149),   *)
(* which on a first call goes to the network.                              *)

MaxLoads == 3

\* The /summarize requests that reach line 1422.
Loads == 1..MaxLoads

\* Line 169.
Hardcoded == "You are a land document expert. Analyze the RoR document and provide a detailed summary."

\* What get_prompt ends in: the prompt of the API, the text of the
\* fallback file, or an exception (prompt_service.py lines 98, 113, 121,
\* 124).
ServiceOutcomes == {"api prompt", "file prompt", "raised"}

\* What reading prompts/ror_summary.txt ends in, lines 160-162.
FileOutcomes == {"file prompt", "raised"}

ParserAndServicesIdle ==
    /\ ParserIdle
    /\ ExplainIdle
    /\ RecordsIdle
    /\ PromptIdle

InitLoader ==
    /\ ParserAndServicesIdle
    /\ ROR_SUMMARY_PROMPT = <<>>
    /\ ROR_SUMMARY_PROMPT_LOADED = FALSE
    /\ prompt_service \in BOOLEAN
    /\ SummarizeRoR = "placeholder"
    /\ ror_summarizer = "placeholder"
    /\ load_pc = [r \in Loads |-> "called"]
    /\ fetches = 0
    /\ recreations = 0

\* Lines 142-143: already loaded or attempted.
LoadReturn(r) ==
    /\ load_pc[r] = "called"
    /\ ROR_SUMMARY_PROMPT_LOADED
    /\ load_pc' = [load_pc EXCEPT ![r] = "returned"]
    /\ UNCHANGED <<ROR_SUMMARY_PROMPT, ROR_SUMMARY_PROMPT_LOADED, prompt_service,
                   SummarizeRoR, ror_summarizer, fetches, recreations>>
    /\ UNCHANGED <<parser_vars, explain_vars, records_vars, prompt_vars>>

\* Lines 152-154 or 162-163, 169-170 and 173-177: the prompt is assigned
\* from what the load ended in, the flag is set and the summarizer is
\* created again from the signature.
LoadEnd(r, outcome) ==
    LET text == IF outcome = "raised" THEN Hardcoded ELSE outcome
    IN /\ ROR_SUMMARY_PROMPT' = <<text>>
       /\ SummarizeRoR' = text
       /\ ROR_SUMMARY_PROMPT_LOADED' = TRUE
       /\ ror_summarizer' = text
       /\ recreations' = recreations + 1
       /\ load_pc' = [load_pc EXCEPT ![r] = "loaded"]

\* Lines 142-149: the flag is not set and there is a prompt service; the
\* request calls get_prompt and waits for it.
LoadAwait(r) ==
    /\ load_pc[r] = "called"
    /\ ~ROR_SUMMARY_PROMPT_LOADED
    /\ prompt_service
    /\ fetches' = fetches + 1
    /\ load_pc' = [load_pc EXCEPT ![r] = "awaiting"]
    /\ UNCHANGED <<ROR_SUMMARY_PROMPT, ROR_SUMMARY_PROMPT_LOADED, prompt_service,
                   SummarizeRoR, ror_summarizer, recreations>>
    /\ UNCHANGED <<parser_vars, explain_vars, records_vars, prompt_vars>>

\* Lines 149-177: get_prompt has ended and the request goes on to the end
\* of the loader.
LoadResume(r) ==
    /\ load_pc[r] = "awaiting"
    /\ \E outcome \in ServiceOutcomes : LoadEnd(r, outcome)
    /\ UNCHANGED <<prompt_service, fetches>>
    /\ UNCHANGED <<parser_vars, explain_vars, records_vars, prompt_vars>>

\* Lines 142-145 and 157-177: the flag is not set and there is no prompt
\* service; the file is read and the loader runs to its end without
\* waiting.
LoadFile(r) ==
    /\ load_pc[r] = "called"
    /\ ~ROR_SUMMARY_PROMPT_LOADED
    /\ ~prompt_service
    /\ fetches' = fetches + 1
    /\ \E outcome \in FileOutcomes : LoadEnd(r, outcome)
    /\ UNCHANGED prompt_service
    /\ UNCHANGED <<parser_vars, explain_vars, records_vars, prompt_vars>>

NextLoader ==
    \E r \in Loads :
        \/ LoadReturn(r)
        \/ LoadAwait(r)
        \/ LoadResume(r)
        \/ LoadFile(r)

SpecLoader == InitLoader /\ [][NextLoader]_vars

----------------------------------------------------------------------------
(* Properties of one call.                                                 *)

\* The plot extractor has run in the current call.
PlotExtracted == pc \in {"plotted", "commented", "remapped", "scored", "done"}

UsesTableA == doc.tableA.present
UsesTableB == ~doc.tableA.present /\ doc.tableB.present

\* The documents for which the extractor answers with _empty_plot_data.
NoPlotData ==
    \/ ~doc.tableA.present /\ ~doc.tableB.present
    \/ doc.tableA.present /\ DataRowsA(doc.tableA.rows) = <<>>

\* C1 as stated: for every document, total_plots is the decimal string of
\* the number of per-plot records, and plot_numbers has one entry per
\* per-plot record.
C1_CountConsistency ==
    PlotExtracted =>
        /\ plot_data.total_plots.s = ToString(Len(plot_data.plots.l))
        /\ Len(plot_data.plot_numbers.l) = Len(plot_data.plots.l)

\* C1 amended: plot_numbers has exactly one entry per per-plot record, in
\* the same order, for every document; total_plots is the decimal string
\* of the number of per-plot records, except that it is the sentinel
\* "Not found" when the document has no plot table, when table GrdViewRoR
\* has no row after its first, or when Strategy B extracted no record, and
\* in those cases there are no per-plot records.
C1_CountConsistencyAmended ==
    PlotExtracted =>
        LET plots == plot_data.plots.l
            plot_numbers == plot_data.plot_numbers.l
            sentinel == NoPlotData \/ (UsesTableB /\ plots = <<>>)
        IN /\ Len(plot_numbers) = Len(plots)
           /\ \A i \in 1..Len(plots) : plot_numbers[i] = plots[i].plot_number
           /\ sentinel => plots = <<>>
           /\ plot_data.total_plots.s =
                 IF sentinel THEN "Not found" ELSE ToString(Len(plots))

\* C1 witness: a table whose two rows are both recorded, one of them with an
\* empty plot number.
C1_Witness ==
    /\ PlotExtracted
    /\ Len(plot_data.plots.l) = 2
    /\ plot_data.total_plots.s = "2"
    /\ \E i \in 1..2 : plot_data.plot_numbers.l[i] = ""

\* C2 as stated: for every document, total_area is the sum of the areas of
\* the per-plot records, formatted to 4 decimals with the unit suffix, also
\* when the sum is zero or no plot was extracted.
C2_AreaAdditivity ==
    PlotExtracted =>
        plot_data.total_area.s = FormatArea(SumAreas(plot_data.plots.l))

\* The rows of table GrdViewRoR that have the minimum number of cells.
RECURSIVE WideRows(_)
WideRows(rows) ==
    IF rows = <<>> THEN <<>>
    ELSE IF Len(Head(rows)) >= MinColumns THEN <<Head(rows)>> \o WideRows(Tail(rows))
    ELSE WideRows(Tail(rows))

\* C2 amended: total_area is the sum of the areas of the per-plot records,
\* formatted to 4 decimals with the suffix " hectares", except that it is
\* the sentinel "Not found" when the document has no plot table, when table
\* GrdViewRoR has no row after its first, or when Strategy B was used and
\* the sum is not greater than zero.  In Strategy A a row whose area text
\* is not a number is recorded with area 0.
C2_AreaAdditivityAmended ==
    PlotExtracted =>
        LET plots == plot_data.plots.l
            total == SumAreas(plots)
            sentinel == NoPlotData \/ (UsesTableB /\ total <= 0)
            wide == WideRows(DataRowsA(doc.tableA.rows))
        IN /\ plot_data.total_area.s =
                 IF sentinel THEN "Not found" ELSE FormatArea(total)
           /\ (UsesTableA /\ ~NoPlotData) =>
                 /\ Len(plots) = Len(wide)
                 /\ \A i \in 1..Len(plots) :
                       ~IsFloat(wide[i][5]) => plots[i].area = 0

\* C2 witness: two rows with areas 0.0065 and 0.0105 and a third whose area
\* is not a number.
C2_Witness ==
    /\ PlotExtracted
    /\ UsesTableA
    /\ Len(plot_data.plots.l) = 2
    /\ plot_data.total_area.s = "0.0170 hectares"
    /\ \E i \in 1..Len(doc.tableA.rows) :
          Len(doc.tableA.rows[i]) >= MinColumns /\ ~IsFloat(doc.tableA.rows[i][5])

\* The call has returned a record (the extracted one or the error record).
CallReturned == pc = "done" /\ result.status \in {"returned", "failed"}

RequiredOdiaKeys == {ENGLISH_TO_ODIA_FIELD_NAMES[required_fields[i]] :
                       i \in 1..Len(required_fields)}

\* C3 as stated: each of the ten required fields is a key of the output,
\* and its value is never null and never an empty string.
C3_SentinelTotality ==
    CallReturned =>
        \A key \in RequiredOdiaKeys :
            /\ key \in DOMAIN result.data
            /\ result.data[key] # NoneV
            /\ result.data[key] # Str("")

\* The claimed notion of a present field: a non-empty value that is none of
\* the sentinel strings.
ClaimPresent(data, key) ==
    /\ key \in DOMAIN data
    /\ \/ data[key].k = "str"
          /\ data[key].s \notin {"Not found", "Extraction failed", ""}
       \/ data[key].k = "list" /\ Len(data[key].l) > 0

ClaimCount(data) ==
    Cardinality({i \in 1..Len(required_fields) : ClaimPresent(data, required_fields[i])})

\* C4: with n the number of required fields that are present, the level is
\* high for n = 10, medium for n in 7..9 and low for n <= 6.
C4_Thresholds ==
    pc = "classified" =>
        LET n == ClaimCount(extracted_data)
        IN /\ n = 10 => confidence = "high"
           /\ n \in 7..9 => confidence = "medium"
           /\ n <= 6 => confidence = "low"

\* C4 witness: exactly seven present fields, one of the others an empty
\* plot_numbers list, classified medium.
C4_Witness ==
    /\ pc = "classified"
    /\ ClaimCount(extracted_data) = 7
    /\ extracted_data["plot_numbers"] = List(<<>>)
    /\ confidence = "medium"

Rank(level) == CASE level = "low" -> 0 [] level = "medium" -> 1 [] level = "high" -> 2

\* C5: replacing one present required field by a sentinel never raises the
\* confidence level.
C5_Monotone ==
    (pc = "classified" /\ prev.status = "classified") =>
        Rank(confidence) <= Rank(prev.confidence)

\* C5 witness: a replacement that takes the record from ten to nine present
\* fields and the level from high to medium.
C5_Witness ==
    /\ pc = "classified"
    /\ prev.status = "classified"
    /\ ClaimCount(prev.data) = 10
    /\ ClaimCount(extracted_data) = 9
    /\ prev.confidence = "high"
    /\ confidence = "medium"

\* C6 as stated: the entry point never propagates an exception, and a
\* failure gives the fully sentineled record with confidence low.
C6_NeverRaises ==
    /\ pc # "raised"
    /\ (pc = "done" /\ result.status = "failed") =>
          /\ result.confidence = "low"
          /\ \A key \in DOMAIN result.data :
                result.data[key] = Str("Extraction failed")

\* C7 as stated: two calls on the same document that both return the
\* extracted record return equal records and equal levels.
C7_Determinism ==
    (pc = "done" /\ result.status = "returned" /\ prev.status = "returned") =>
        result = prev

OdiaTopKeys == {ENGLISH_TO_ODIA_FIELD_NAMES[e] : e \in DOMAIN ENGLISH_TO_ODIA_FIELD_NAMES}
OdiaPlotKeys == {plot_key_mapping[e] : e \in DOMAIN plot_key_mapping}

\* The per-plot records of a returned record.
ReturnedPlots ==
    IF "plot_bibarani" \in DOMAIN result.data THEN result.data["plot_bibarani"].l ELSE <<>>

C9_EnglishKeys ==
    CallReturned =>
        {"district", "tehsil", "village", "khatiyan_number", "native_district",
         "owner_name", "total_plots", "plot_numbers", "total_area",
         "special_comments"} \subseteq DOMAIN result.data

Remapped == pc \in {"remapped", "scored", "done"}

\* The value the claim gives a location field: the native one when it was
\* captured and is not empty, else the English one.
Preferred(native, english) ==
    IF native.k = "str" /\ native.s # "" THEN native ELSE english

\* C10: district, tehsil and village take the native value when one was
\* captured and is not empty, and else the English value; the other mapped
\* scalar fields pass through unchanged.
C10_NativePreferred ==
    Remapped =>
        /\ odia_data["jilla"] =
              Preferred(extracted_data.native_district, extracted_data.district)
        /\ odia_data["tahasil"] =
              Preferred(extracted_data.native_tehsil, extracted_data.tehsil)
        /\ odia_data["grama"] =
              Preferred(extracted_data.native_village, extracted_data.village)
        /\ \A e \in {"khatiyan_number", "owner_name", "father_name", "caste",
                      "other_owners", "total_plots", "plot_numbers", "total_area",
                      "land_type", "special_comments"} :
              odia_data[ENGLISH_TO_ODIA_FIELD_NAMES[e]] = extracted_data[e]

\* C10 witness: the district has only an English value, which is kept, and
\* the tehsil has a native value that differs from its English one, which
\* is preferred.
C10_Witness ==
    /\ Remapped
    /\ extracted_data.native_district = NoneV
    /\ odia_data["jilla"] = Str("Cuttack")
    /\ extracted_data.native_tehsil = Str("Sadar(od)")
    /\ extracted_data.tehsil = Str("Sadar")
    /\ odia_data["tahasil"] = Str("Sadar(od)")

NoPlotTable == ~doc.tableA.present /\ ~doc.tableB.present

\* C12: for a document with neither plot table the extracted record has
\* owner_name and total_plots "Not found" and empty plots and plot_numbers,
\* the returned record has the same values under their Odia keys, and the
\* confidence level is low or medium, never high, whatever the location
\* fields hold.
C12_NoPlotTable ==
    NoPlotTable =>
        /\ pc \in {"scored", "done"} =>
              /\ extracted_data.owner_name = Str("Not found")
              /\ extracted_data.total_plots = Str("Not found")
              /\ extracted_data.plots = List(<<>>)
              /\ extracted_data.plot_numbers = List(<<>>)
              /\ confidence \in {"low", "medium"}
        /\ (pc = "done" /\ result.status = "returned") =>
              /\ result.data["malika_nama"] = Str("Not found")
              /\ result.data["mota_plot"] = Str("Not found")
              /\ result.data["plot_bibarani"] = List(<<>>)
              /\ result.data["plot_nambar"] = List(<<>>)
        /\ (pc = "done" /\ result.status \in {"returned", "failed"}) =>
              result.confidence \in {"low", "medium"}

\* C12 witness: a document with neither plot table whose four location
\* fields were all found has been returned.
C12_Witness ==
    /\ NoPlotTable
    /\ pc = "done"
    /\ result.status = "returned"
    /\ \A key \in {"district", "tehsil", "village", "khatiyan_number"} :
          extracted_data[key] # Str("Not found")
    /\ result.data["malika_nama"] = Str("Not found")
    /\ result.confidence = "low"

\* The positions of the markers that hold one of the labels and lie in a
\* cell that has a following sibling cell.
UsableMarkers ==
    {i \in 1..Len(doc.strongs) :
        /\ doc.strongs[i].labels \cap {"jilla", "District"} # {}
        /\ doc.strongs[i].td
        /\ doc.strongs[i].sib}

\* The value text without its leading colons and outer whitespace.
ValueText(i) == StripWs(LStripColon(doc.strongs[i].value))

SlashesOf(t) == {j \in 1..Len(t) : t[j] = "/"}

\* C13: on the value cell of the first usable marker the locator strips the
\* leading ':' and splits on '/'; with two or more segments it returns the
\* first and the second as (native, english) and ignores the others, with
\* one segment it returns (None, segment), and with no usable marker it
\* returns (None, None).
C13_BilingualLocator ==
    pc = "field_located" =>
        IF UsableMarkers = {}
        THEN location_data.native_district = NoneV /\ location_data.district = NoneV
        ELSE LET first == CHOOSE i \in UsableMarkers : \A m \in UsableMarkers : i <= m
                 t == ValueText(first)
                 slashes == SlashesOf(t)
             IN IF slashes = {}
                THEN /\ location_data.native_district = NoneV
                     /\ location_data.district = Str(Text(t))
                ELSE LET s1 == CHOOSE j \in slashes : \A m \in slashes : j <= m
                         later == {j \in slashes : j > s1}
                         s2 == IF later = {} THEN Len(t) + 1
                               ELSE CHOOSE j \in later : \A m \in later : j <= m
                     IN /\ location_data.native_district =
                             Str(Text(StripWs(SubSeq(t, 1, s1 - 1))))
                        /\ location_data.district =
                             Str(Text(StripWs(SubSeq(t, s1 + 1, s2 - 1))))

\* C13 witness: the first marker that names the field has no parent cell,
\* the next one is usable and its value has three segments.
C13_Witness ==
    /\ pc = "field_located"
    /\ Len(doc.strongs) >= 2
    /\ ~doc.strongs[1].td
    /\ "jilla" \in doc.strongs[1].labels
    /\ UsableMarkers # {}
    /\ \A i \in UsableMarkers : Cardinality(SlashesOf(ValueText(i))) = 2
    /\ location_data.native_district = Str("Kataka")
    /\ location_data.district = Str("Cuttack")

\* The location stage has just run; location_data is not written again.
Located == pc = "located"

\* What Strategy A (the label markers) finds for the four location fields:
\* (native, english) pairs.
StrategyA ==
    [district |-> ExtractBilingualField(doc, "jilla", "District"),
     tehsil |-> ExtractBilingualField(doc, "tahasil", "Tahasil"),
     village |-> ExtractBilingualField(doc, "mauja", "Mouza"),
     khatiyan_number |->
       ExtractBilingualField(doc, "khatiyanara kramika nambara", "Khata No")]

\* What Strategy B (the identified elements) finds for them.
StrategyB ==
    [district |-> ExtractSrorfrontField(doc, "jilla", <<"gvfront_ctl02_lblDist">>)[1],
     tehsil |-> ExtractSrorfrontField(doc, "tahasil",
                  <<"gvfront_ctl02_lblTehsil", "gvfront_ctl02_lblTahasil">>)[1],
     village |-> ExtractSrorfrontField(doc, "mauja", <<"gvfront_ctl02_lblMouja">>)[1],
     khatiyan_number |-> ExtractSrorfrontKhatiyan(doc)]

LocationFields == {"district", "tehsil", "village", "khatiyan_number"}

\* Strategy A yields a district.
DistrictByA == Truthy(StrategyA.district[2])

\* C14: if Strategy A yields no district, all four location fields are the
\* ones Strategy B finds (or the sentinel), whatever Strategy A found for
\* the other three; if Strategy A yields a district, all four are the ones
\* Strategy A finds (or the sentinel), whatever Strategy B could find.
C14_AllOrNothing ==
    Located =>
        \A f \in LocationFields :
            location_data[f] =
                IF DistrictByA
                THEN Or(StrategyA[f][2], Str("Not found"))
                ELSE Or(StrategyB[f], Str("Not found"))

\* C14 witness: Strategy A finds a tehsil but no district, Strategy B finds
\* another tehsil, and the record has the one of Strategy B.
C14_Witness ==
    /\ Located
    /\ ~DistrictByA
    /\ StrategyA.tehsil[2] = Str("Sadar")
    /\ StrategyB.tehsil = Str("Sadar2(od)")
    /\ location_data.tehsil = Str("Sadar2(od)")
    /\ location_data.district = Str("Kataka")

\* The keys of a per-plot record of each implementation.
PlotKeysA == {"plot_number", "area", "land_type", "plot_type", "owner", "father", "caste"}
PlotKeysB == {"plot_number", "area", "land_type", "notes"}

\* The per-plot records were built by the Strategy A implementation: one
\* per row of GrdViewRoR with the minimum number of cells.
ParsedByA ==
    /\ Len(plot_data.plots.l) = Len(WideRows(DataRowsA(doc.tableA.rows)))
    /\ \A i \in 1..Len(plot_data.plots.l) :
          /\ PlotKeysA \subseteq DOMAIN plot_data.plots.l[i]
          /\ plot_data.plots.l[i].plot_number =
                WideRows(DataRowsA(doc.tableA.rows))[i][2]

\* The per-plot records were built by the Strategy B implementation.
ParsedByB ==
    /\ \A i \in 1..Len(plot_data.plots.l) :
          DOMAIN plot_data.plots.l[i] = PlotKeysB
    /\ plot_data.other_owners = Str("None mentioned")

\* C15 as stated: the plot table is parsed by the Strategy B implementation
\* exactly when location fell back to Strategy B.
C15_StrategiesAgree ==
    (pc = "plotted" /\ (UsesTableA \/ UsesTableB)) =>
        /\ ~DistrictByA => UsesTableB /\ ParsedByB
        /\ DistrictByA => UsesTableA /\ ParsedByA

\* C15 amended: the implementation that parses the plot table is chosen
\* from the tables alone, whichever strategy located the district: the
\* Strategy A implementation whenever table GrdViewRoR is present, the
\* Strategy B implementation whenever it is absent and table gvRorBack is
\* present.
C15_StrategyByTable ==
    pc = "plotted" =>
        /\ (UsesTableA /\ ~NoPlotData) => ParsedByA
        /\ UsesTableB => ParsedByB

\* C15 witness: Strategy A located the district and the plots come from
\* table gvRorBack by the Strategy B implementation.
C15_Witness ==
    /\ PlotExtracted
    /\ DistrictByA
    /\ UsesTableB
    /\ Len(plot_data.plots.l) > 0
    /\ ParsedByB

\* The distinct non-empty owner values over the parsed rows of GrdViewRoR.
DistinctOwners ==
    {row[9] : row \in SeqToSet(WideRows(DataRowsA(doc.tableA.rows)))} \ {""}

\* q lists the members of S in ascending order.
AscendingListOf(q, S) ==
    /\ SeqToSet(q) = S
    /\ \A i \in 1..(Len(q) - 1) : StringBefore(q[i], q[i + 1])

\* C16: with D the distinct non-empty owners of the parsed rows, owner_name
\* is the smallest member of D, other_owners is the other members in sorted
\* order joined by ", ", or "None mentioned" when D has one member, and
\* owner_name is not one of the names in other_owners.
C16_OwnerAggregation ==
    (pc = "plotted" /\ DistinctOwners # {}) =>
        LET D == DistinctOwners
            owner_name == plot_data.owner_name.s
            rest == D \ {owner_name}
        IN /\ owner_name \in D
           /\ \A other \in rest : StringBefore(owner_name, other)
           /\ Cardinality(D) = 1 => plot_data.other_owners.s = "None mentioned"
           /\ Cardinality(D) > 1 =>
                 \E q \in [1..Cardinality(rest) -> rest] :
                     /\ AscendingListOf(q, rest)
                     /\ plot_data.other_owners.s = Join(q, ", ")

\* C16 witness: three rows naming Chand, Akil and Bina in that order.
C16_Witness ==
    /\ pc = "plotted"
    /\ runs = 0
    /\ ServerIdle
    /\ Len(doc.tableA.rows) = 4
    /\ \A i \in 2..4 : Len(doc.tableA.rows[i]) >= MinColumns
    /\ doc.tableA.rows[2][9] = "Chand"
    /\ doc.tableA.rows[3][9] = "Akil"
    /\ doc.tableA.rows[4][9] = "Bina"
    /\ plot_data.owner_name.s = "Akil"
    /\ plot_data.other_owners.s = "Bina, Chand"

\* C17 as stated: parsing the data rows of a GrdViewRoR table in another
\* order never changes owner_name, other_owners, father_name, caste or
\* land_type.
C17_RowOrderIndependent ==
    (pc = "plotted" /\ prev.status = "plotted") =>
        \A field \in {"owner_name", "other_owners", "father_name", "caste", "land_type"} :
            plot_data[field] = prev.data[field]

\* The rows of gvRorBack that yield a record.
RecordedRowsB == SelectSeq(doc.tableB.rows, IsDataRowB)

\* The texts a gvRorBack row offers for its area.
HectareTexts(row) ==
    (IF HasSpan(row, "lblHector") THEN {row.spans["lblHector"]} ELSE {})
    \cup (IF Len(row.cells) > 5 THEN {row.cells[6]} ELSE {})

AcreText(row) ==
    IF HasSpan(row, "lblAcre") THEN row.spans["lblAcre"]
    ELSE IF Len(row.cells) > 3 THEN row.cells[4] ELSE ""

\* A gvRorBack row whose hectare texts are not numerals and whose acre text
\* is not one either.
MalformedAreaB(row) ==
    /\ \A text \in HectareTexts(row) : ~IsFloat(text)
    /\ AcreText(row) # ""
    /\ ~IsFloat(AcreText(row))

\* The sum of the areas the rows of GrdViewRoR state as numerals.
RECURSIVE NumericAreaSum(_)
NumericAreaSum(rows) ==
    IF rows = <<>> THEN 0
    ELSE (IF IsFloat(Head(rows)[5]) THEN FloatOf(Head(rows)[5]) ELSE 0)
         + NumericAreaSum(Tail(rows))

\* C18: a row whose area text is not numeric is recorded with area 0 and
\* adds 0 to total_area, and every row, the later ones included, is
\* recorded as its own cells say, in both strategies.
C18_MalformedArea ==
    pc = "plotted" =>
        /\ (UsesTableA /\ ~NoPlotData) =>
              LET wide == WideRows(DataRowsA(doc.tableA.rows))
                  plots == plot_data.plots.l
              IN /\ Len(plots) = Len(wide)
                 /\ \A i \in 1..Len(wide) :
                       /\ plots[i].plot_number = wide[i][2]
                       /\ plots[i].owner = wide[i][9]
                       /\ plots[i].area =
                             IF IsFloat(wide[i][5]) THEN FloatOf(wide[i][5]) ELSE 0
                 /\ plot_data.total_area.s = FormatArea(NumericAreaSum(wide))
        /\ UsesTableB =>
              LET plots == plot_data.plots.l
              IN /\ Len(plots) = Len(RecordedRowsB)
                 /\ \A i \in 1..Len(plots) :
                       /\ plots[i].plot_number = PlotNumberB(RecordedRowsB[i])
                       /\ MalformedAreaB(RecordedRowsB[i]) => plots[i].area = 0
                 /\ (\A i \in 1..Len(plots) : MalformedAreaB(RecordedRowsB[i])) =>
                       plot_data.total_area.s = "Not found"

\* C18 witness: row 131, whose area text is "abc", is followed by row 130,
\* and both are recorded.
C18_Witness ==
    /\ PlotExtracted
    /\ UsesTableA
    /\ Len(plot_data.plots.l) = 2
    /\ plot_data.plots.l[1].plot_number = "131"
    /\ plot_data.plots.l[1].area = 0
    /\ plot_data.plots.l[2].plot_number = "130"
    /\ plot_data.plots.l[2].area = FloatOf("0.0105")
    /\ plot_data.total_area.s = "0.0105 hectares"

\* The number a text parses to, and 0 when it is empty or no numeral.
NumberOrZero(text) == IF IsFloat(text) THEN FloatOf(text) ELSE 0

DecimalText(row) ==
    IF HasSpan(row, "lblDecimil") THEN row.spans["lblDecimil"]
    ELSE IF Len(row.cells) > 4 THEN row.cells[5] ELSE ""

\* The three tiers as the claim states them.
TierOne(row) == IF HasSpan(row, "lblHector") THEN NumberOrZero(row.spans["lblHector"]) ELSE 0
TierTwo(row) == IF Len(row.cells) > 5 THEN NumberOrZero(row.cells[6]) ELSE 0
TierThree(row) ==
    IF \E text \in {AcreText(row), DecimalText(row)} : text # "" /\ ~IsFloat(text)
    THEN 0
    ELSE (NumberOrZero(AcreText(row)) \div Hundredth) * HundredthAcre
         + ((NumberOrZero(DecimalText(row)) \div Hundredth) * HundredthAcre) \div 100

\* C19: the area of a Strategy B row is the hectare element's number if it
\* parses to a nonzero one, else the number of the cell of index 5 if that
\* is nonzero, else acre * 0.404686 + decimal * 0.00404686, which is 0
\* when the acre or the decimal text does not parse.
C19_AreaTiers ==
    (pc = "plotted" /\ UsesTableB) =>
        /\ Len(plot_data.plots.l) = Len(RecordedRowsB)
        /\ \A i \in 1..Len(RecordedRowsB) :
              LET row == RecordedRowsB[i]
              IN plot_data.plots.l[i].area =
                   IF TierOne(row) # 0 THEN TierOne(row)
                   ELSE IF TierTwo(row) # 0 THEN TierTwo(row)
                   ELSE TierThree(row)

\* C19 witness: the hectare element holds "0", the hectare cell no numeral,
\* and the area is rebuilt from 2 acres and 5 decimals.
C19_Witness ==
    /\ pc = "plotted"
    /\ Len(plot_data.plots.l) = 1
    /\ HasSpan(doc.tableB.rows[1], "lblHector")
    /\ doc.tableB.rows[1].spans["lblHector"] = "0"
    /\ doc.tableB.rows[1].cells[6] = "abc"
    /\ AcreText(doc.tableB.rows[1]) = "2"
    /\ DecimalText(doc.tableB.rows[1]) = "5"
    /\ plot_data.plots.l[1].area = 2 * 40468600 + 5 * 404686

\* The document has a remark or a metadata element with a text, or a
\* metadata marker whose parent has a value after a colon.
MetadataFound ==
    \/ \E i \in 1..Len(doc.spans) :
          /\ doc.spans[i].text # <<>>
          /\ \/ IdMatches(".*lblSpecialCase.*", doc.spans[i].id)
             \/ \E n \in 1..Len(span_metadata_fields) :
                   IdMatches(span_metadata_fields[n].pattern, doc.spans[i].id)
    \/ \E i \in 1..Len(doc.strongs) :
          /\ doc.strongs[i].labels \cap SeqToSet(metadata_fields) # {}
          /\ \E p \in 1..(Len(doc.strongs[i].ptext) - 1) :
                /\ doc.strongs[i].ptext[p] = ":"
                /\ \E m \in (p + 1)..Len(doc.strongs[i].ptext) :
                      ~IsWs(doc.strongs[i].ptext[m])

\* C20 as stated: the extractor returns a non-empty string, the sentinel
\* "No special comments found" exactly when nothing is found, and never
\* another fixed message in place of the items found.
C20_CommentsSentinel ==
    pc = "commented" =>
        /\ special_comments # ""
        /\ special_comments = "No special comments found" <=> ~MetadataFound
        /\ special_comments # "Error extracting metadata"

\* The items the scan collects: the remark, then the labelled ones.
CollectedItems ==
    StrongComments(doc, SpanComments(doc, SpecialCaseComments(doc), 1), 1)

MetadataLabels ==
    SeqToSet(metadata_fields)
    \cup {span_metadata_fields[n].label : n \in 1..Len(span_metadata_fields)}

\* C20 amended: the extractor returns a non-empty string and never raises;
\* when a call of its scan raises it returns the fixed message "Error
\* extracting metadata" in place of whatever was found; otherwise it
\* returns the sentinel "No special comments found" exactly when nothing
\* is found, and else the items joined by line breaks, each item of a
\* label scan written "label: value".
C20_CommentsSentinelAmended ==
    pc = "commented" =>
        /\ special_comments # ""
        /\ special_comments # "Error extracting metadata" =>
              /\ special_comments = "No special comments found" <=> ~MetadataFound
              /\ MetadataFound =>
                    LET items == CollectedItems
                    IN /\ special_comments =
                             Join([i \in 1..Len(items) |-> Text(items[i])], "\n")
                       /\ \A i \in 1..Len(items) :
                             \/ i = 1 /\ <<items[i]>> = SpecialCaseComments(doc)
                             \/ /\ Len(items[i]) > 3
                                /\ items[i][1] \in MetadataLabels
                                /\ items[i][2] = ":"
                                /\ items[i][3] = " "

\* C20 witness: two metadata markers and no metadata element; the items
\* are returned one per line.
C20_Witness ==
    /\ pc = "commented"
    /\ MetadataFound
    /\ \A i \in 1..Len(doc.spans) : ~IdMatches(".*lblSpecialCase.*", doc.spans[i].id)
    /\ special_comments =
         "antima prakashana tarikha: 29/03/2003\nthana: 202\nthana nam: 202"

\* The field was captured from an identifier element: an element of the
\* field's own identifier exists and has a text.
CapturedById(label) ==
    \E n \in 1..Len(span_metadata_fields) :
       /\ span_metadata_fields[n].label = label
       /\ LET i == FindSpanByPattern(doc, span_metadata_fields[n].pattern)
          IN i # 0 /\ doc.spans[i].text # <<>>

\* The lines of the label scan: the items after the remark and the lines
\* of the identifier elements.
FirstScanItem == Len(SpanComments(doc, SpecialCaseComments(doc), 1)) + 1

\* C21: in special_comments each metadata field contributes at most one
\* line, and a field of the label scan that has a marker with a value is
\* skipped exactly when that same field was captured from an identifier
\* element; neither the text of the remark nor the line of a different
\* field makes the label scan skip a field.
C21_SkipOnlyCaptured ==
    (pc = "commented" /\ special_comments # "Error extracting metadata") =>
        LET items == CollectedItems
            LinesOf(label, from) ==
                {i \in from..Len(items) :
                    /\ Len(items[i]) >= 2
                    /\ items[i][1] = label
                    /\ items[i][2] = ":"}
        IN /\ items # <<>> =>
                special_comments =
                    Join([i \in 1..Len(items) |-> Text(items[i])], "\n")
           /\ \A label \in MetadataLabels :
                 Cardinality(LinesOf(label, 1)) <= 1
           /\ \A n \in 1..Len(metadata_fields) :
                 StrongComment(doc, metadata_fields[n]) # <<>> =>
                    (LinesOf(metadata_fields[n], FirstScanItem) = {}
                        <=> CapturedById(metadata_fields[n]))

\* The request's page was parsed and the confidence is not "high".
NotHighConfidence ==
    /\ explain_pc = "responded"
    /\ pc = "done"
    /\ result.confidence # "high"

StorageCalls ==
    {"select khatiyan_records", "select khatiyan_extractions",
     "get_or_create_khatiyan_record", "store_khatiyan_extraction"}

\* C22: whenever the parser's confidence is not high, the /explain request
\* ends in the dedicated rejection response, status 422, and not in the
\* generic 500, and neither the translation service nor a record or
\* extraction storage call has been made for the request.
C22_Rejection ==
    NotHighConfidence =>
        /\ response.status = 422
        /\ \A i \in 1..Len(calls) :
              calls[i] \notin StorageCalls \cup {"translate_odia_to_english"}

\* C23: after any sequence of get_or_create_khatiyan_record calls, calls
\* of concurrently running requests or processes included, the record
\* table holds at most one record per (district, tehsil, village,
\* khatiyan_number), and every successful call with the same key has
\* returned the same record identifier.
C23_Deduplicated ==
    /\ \A i, j \in 1..Len(khatiyan_records) :
          khatiyan_records[i].key = khatiyan_records[j].key => i = j
    /\ \A r, o \in DOMAIN returned :
          (/\ returned[r] # 0
           /\ returned[o] # 0
           /\ record_key[r] = record_key[o]) => returned[r] = returned[o]

\* The call of get_prompt under way has ended.
GetPromptEnded == get_pc = "done"

\* At the call, without force_refresh, the cache held an entry of the
\* prompt id younger than cache_ttl_seconds.
FreshAtCall ==
    LET key == CacheKey(get_call.prompt_id)
    IN /\ ~get_call.force_refresh
       /\ key \in DOMAIN get_call.cache_before
       /\ get_call.called_at - get_call.cache_before[key].fetched_at
             < cache_ttl_seconds

Did(kind) == \E i \in 1..Len(io) : io[i].kind = kind

ElementsOf(id) == {i \in 1..Len(doc.spans) : doc.spans[i].id = id}

\* The candidates, by their place in the list, for which an element exists.
MatchingCandidates ==
    {n \in 1..Len(TehsilSpanIds) : ElementsOf(TehsilSpanIds[n]) # {}}

\* The label cells that hold the tehsil label and a value-bearing element.
TehsilCells ==
    {i \in 1..Len(doc.tds) : "tahasil" \in doc.tds[i].labels /\ doc.tds[i].line # NoneV}

\* C25: the identifier locator returns the text of the first candidate
\* identifier, in list order, for which an element exists, whatever later
\* candidates and the label cells hold; the label scan is used only when no
\* candidate matches an element; both components of the pair are equal;
\* and the pair is (None, None) when neither path finds an element.
C25_IdentifierLocator ==
    pc = "element_located" =>
        /\ location_data.tehsil = location_data.native_tehsil
        /\ IF MatchingCandidates # {}
           THEN LET n == CHOOSE c \in MatchingCandidates :
                            \A m \in MatchingCandidates : c <= m
                    i == CHOOSE e \in ElementsOf(TehsilSpanIds[n]) :
                            \A m \in ElementsOf(TehsilSpanIds[n]) : e <= m
                IN location_data.tehsil = Str(Text(doc.spans[i].text))
           ELSE IF TehsilCells # {}
           THEN location_data.tehsil =
                   doc.tds[CHOOSE c \in TehsilCells : \A m \in TehsilCells : c <= m].line
           ELSE location_data.tehsil = NoneV

\* C25 witness: the element of the second candidate stands before the
\* element of the first candidate in the document, a label cell holds
\* another value, and the text of the first candidate's element is returned.
C25_Witness ==
    /\ pc = "element_located"
    /\ Len(doc.spans) = 2
    /\ doc.spans[1] = Span("gvfront_ctl02_lblTahasil", <<"Sadar(od)">>)
    /\ doc.spans[2] = Span("gvfront_ctl02_lblTehsil", <<"Sadar2(od)">>)
    /\ TehsilCells # {}
    /\ location_data.tehsil = Str("Sadar2(od)")
    /\ location_data.native_tehsil = Str("Sadar2(od)")

\* The per-plot records are the given rows, one record per row, in order.
RecordsOfRows(rows) ==
    LET plots == plot_data.plots.l
    IN /\ Len(plots) = Len(rows)
       /\ \A i \in 1..Len(plots) :
             /\ plots[i].plot_number = rows[i][2]
             /\ plots[i].land_type = rows[i][3]
             /\ plots[i].owner = rows[i][9]

\* C26 as stated: with Strategy A the per-plot records are exactly the rows
\* of the plot table that have at least 11 cells, one record per such row
\* in document order, and every row with fewer cells is skipped.
C26_RowsByColumnCount ==
    (pc = "plotted" /\ UsesTableA) => RecordsOfRows(WideRows(doc.tableA.rows))

\* C26 amended: the per-plot records are exactly the rows after the first
\* row of the plot table that have at least 11 cells, one record per such
\* row in document order; the first row is skipped as the header whatever
\* its cells, and every later row with fewer than 11 cells is skipped.
C26_RowsAfterHeader ==
    (pc = "plotted" /\ UsesTableA) =>
        RecordsOfRows(WideRows(SubSeq(doc.tableA.rows, 2, Len(doc.tableA.rows))))

\* C26 witness: the first row has 11 cells and is skipped, the summary row
\* after it is skipped, and the third row is the only record.
C26_Witness ==
    /\ pc = "plotted"
    /\ UsesTableA
    /\ Len(doc.tableA.rows) = 3
    /\ Len(doc.tableA.rows[1]) >= MinColumns
    /\ Len(doc.tableA.rows[2]) < MinColumns
    /\ Len(doc.tableA.rows[3]) >= MinColumns
    /\ doc.tableA.rows[3][2] = "130"
    /\ Len(plot_data.plots.l) = 1
    /\ plot_data.plots.l[1].plot_number = "130"

\* The plot number of a row of gvRorBack as the claim has it: the text of
\* the plot-number element when the row has one, else of the link in the
\* first cell, else of the first cell.
ClaimedPlotNumber(row) ==
    IF "lblPlotNo" \in DOMAIN row.spans THEN row.spans["lblPlotNo"]
    ELSE IF row.link # NoneV THEN row.link.s
    ELSE row.cells[1]

\* The rows of gvRorBack that give a record.
RecordRowsB ==
    {i \in 1..Len(doc.tableB.rows) :
        LET row == doc.tableB.rows[i]
        IN /\ Len(row.cells) >= 6
           /\ row.cells[1] # ""
           /\ ~IsHeaderCell(row.cells[1])
           /\ ClaimedPlotNumber(row) \notin {"", "&nbsp;"}}

\* The n-th of a set of positions, in ascending order.
NthOf(S, n) == CHOOSE i \in S : Cardinality({j \in S : j < i}) = n - 1

\* C27: in Strategy B every per-plot record has a non-empty plot_number
\* and comes from a row with at least 6 cells whose first cell is not
\* empty and matches no header pattern; the records are those rows in
\* order, each made from its own row alone, so a header row between two
\* data rows changes neither; and the plot number is the text of the row's
\* plot-number element when it has one, else of a link in the first cell,
\* else of the first cell.
C27_RowSelectionB ==
    (pc = "plotted" /\ UsesTableB) =>
        LET plots == plot_data.plots.l
        IN /\ Len(plots) = Cardinality(RecordRowsB)
           /\ \A n \in 1..Len(plots) :
                 LET row == doc.tableB.rows[NthOf(RecordRowsB, n)]
                 IN /\ plots[n].plot_number # ""
                    /\ plots[n].plot_number = ClaimedPlotNumber(row)
                    /\ plots[n].land_type = LandTypeB(row)
                    /\ plots[n].area = AreaB(row)
                    /\ plots[n].notes = NotesB(row)

\* C27 witness: a header row stands between a row with a plot-number
\* element and a row with a link; both data rows are recorded.
C27_Witness ==
    /\ pc = "plotted"
    /\ Len(doc.tableB.rows) = 3
    /\ "lblPlotNo" \in DOMAIN doc.tableB.rows[1].spans
    /\ doc.tableB.rows[1].link # NoneV
    /\ IsHeaderCell(doc.tableB.rows[2].cells[1])
    /\ "lblPlotNo" \notin DOMAIN doc.tableB.rows[3].spans
    /\ doc.tableB.rows[3].link = Str("202")
    /\ Len(plot_data.plots.l) = 2
    /\ plot_data.plots.l[1].plot_number = "208"
    /\ plot_data.plots.l[2].plot_number = "202"

\* The front-page name elements of the page, by position.
NameElements ==
    {i \in 1..Len(doc.spans) : IdMatches(".*lblName.*", doc.spans[i].id)}

\* The front-page name element is absent or has no text.
NoOwnerText ==
    \/ NameElements = {}
    \/ doc.spans[CHOOSE i \in NameElements : \A m \in NameElements : i <= m].text = <<>>

\* C28: in Strategy B owner_name, father_name and caste depend only on the
\* front-page name element and never on the rows of the plot table: they
\* are unchanged when the rows are replaced, each is "Not found" when the
\* element is absent or empty, other_owners is always "None mentioned",
\* and no per-plot record has an owner, father or caste entry.
C28_OwnerFrame ==
    (pc = "plotted" /\ UsesTableB) =>
        /\ NoOwnerText =>
              /\ plot_data.owner_name = Str("Not found")
              /\ plot_data.father_name = Str("Not found")
              /\ plot_data.caste = Str("Not found")
        /\ plot_data.other_owners = Str("None mentioned")
        /\ \A n \in 1..Len(plot_data.plots.l) :
              DOMAIN plot_data.plots.l[n] \cap {"owner", "father", "caste"} = {}
        /\ prev.status = "plotted" =>
              \A field \in {"owner_name", "father_name", "caste", "other_owners"} :
                  plot_data[field] = prev.data[field]

\* C28 witness: the page with the name element "Ram pi: Hari ja: Khandayat
\* ba: Puri" is parsed with two rows and then with none; the owner fields
\* are the same.
C28_Witness ==
    /\ pc = "plotted"
    /\ prev.status = "plotted"
    /\ Len(prev.data.plots.l) = 2
    /\ doc.tableB.rows = <<>>
    /\ plot_data.plots.l = <<>>
    /\ plot_data.owner_name = Str("Ram")
    /\ plot_data.father_name = Str("Hari")
    /\ plot_data.caste = Str("Khandayat")
    /\ plot_data.other_owners = Str("None mentioned")

\* The HTTP requests and the sleeps of the fetch, by position in io.
Gets == {i \in 1..Len(io) : io[i].kind = "get"}
Sleeps == {i \in 1..Len(io) : io[i].kind = "sleep"}

\* The fetch has returned or raised.
FetchEnded == Did("fetch returned") \/ Did("fetch raised")

\* What a request may end in for the loop to go on.
Retried == {"no prompt", "timeout", "connect", "5xx", "other"}

\* C29: _fetch_from_api makes at most max_retries HTTP requests; it
\* returns on the first response that has a prompt, raises at once on a
\* 4xx response, goes on after a timeout, a connection error, a 5xx or
\* another error, sleeps 2^attempt seconds between two requests and never
\* after the last, and raises once max_retries requests have failed.
C29_FetchRetries ==
    /\ Cardinality(Gets) <= max_retries
    /\ FetchEnded =>
          /\ ~(Did("fetch returned") /\ Did("fetch raised"))
          /\ \A i \in Gets :
                LET n == Cardinality({j \in Gets : j <= i})
                    last == \A j \in Gets : j <= i
                IN /\ ~last =>
                         /\ io[i].outcome \in Retried
                         /\ io[i + 1] = Event("sleep", "", 2 ^ (n - 1))
                         /\ i + 2 \in Gets
                   /\ last =>
                         /\ \A s \in Sleeps : s < i
                         /\ io[i].outcome = "ok" <=> Did("fetch returned")
                         /\ io[i].outcome \in Retried => n = max_retries
          /\ Cardinality(Sleeps) = IF Gets = {} THEN 0 ELSE Cardinality(Gets) - 1
          /\ Gets = {} => (max_retries = 0 /\ Did("fetch raised"))

\* C29 witness: with three attempts configured the first request times
\* out, the second gets a 5xx and the third a prompt, after sleeps of 1 and
\* 2 seconds.
C29_Witness ==
    /\ max_retries = 3
    /\ get_pc = "fetched"
    /\ io = <<Event("fetch", "", 0),
              Event("get", "timeout", 0), Event("sleep", "", 1),
              Event("get", "5xx", 0), Event("sleep", "", 2),
              Event("get", "ok", 0), Event("fetch returned", "", 0)>>
    /\ now = 3

\* The calls of the loader that went on to load, and those that ended.
Loading == {r \in Loads : load_pc[r] \in {"awaiting", "loaded"}}
LoadCompleted == {r \in Loads : load_pc[r] \in {"loaded", "returned"}}

\* C30: over all interleavings of /summarize requests in one process the
\* loader fetches the prompt at most once and creates the summarizer again
\* at most once, at most one call loads and the others return at once, and
\* when a call has ended the prompt is set and the flag is true.
C30_LoadedOnce ==
    /\ fetches <= 1
    /\ recreations <= 1
    /\ Cardinality(Loading) <= 1
    /\ LoadCompleted # {} =>
          /\ ROR_SUMMARY_PROMPT # <<>>
          /\ ROR_SUMMARY_PROMPT_LOADED

====
